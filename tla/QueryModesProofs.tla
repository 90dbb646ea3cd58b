-------------------------- MODULE QueryModesProofs ---------------------------
(***************************************************************************)
(* What every answer of a query mode that lists, takes frames, compares or *)
(* shows a view has to be, for every trace and question: lemmas about      *)
(* QueryModes, from those about rows in order that they rest on.           *)
(***************************************************************************)
EXTENDS QueryModes, SequenceTheorems, FiniteSetTheorems, TLAPS

-----------------------------------------------------------------------------
(* Rows in order.  The operators of Sampling choose a row by the number of *)
(* places before it, so that what they return is what they say of a finite *)
(* set: nothing here is computed by recursion.                             *)
\* The places of a finite set that come before one of them, place by place, say
\* which is the first, the second and so on.
Orders(below, P) ==
  /\ IsFiniteSet(P) /\ below \in [P -> SUBSET P]
  /\ \A p \in P : p \notin below[p]
  /\ \A p, r \in P : r \in below[p] => below[r] \subseteq below[p]
  /\ \A p, r \in P : p = r \/ p \in below[r] \/ r \in below[p]

\* So every number below that of all places is the rank of one of them.
LEMMA Ranks ==
  ASSUME NEW P, NEW below, Orders(below, P)
  PROVE  /\ Cardinality(P) \in Nat
         /\ \A p \in P : Cardinality(below[p]) \in 0 .. Cardinality(P) - 1
         /\ \A p, r \in P : r \in below[p] => Cardinality(below[r]) < Cardinality(below[p])
         /\ \A k \in 0 .. Cardinality(P) - 1 : \E p \in P : Cardinality(below[p]) = k
  <1>1. Cardinality(P) \in Nat
    BY FS_CardinalityType DEF Orders
  <1>2. ASSUME NEW p \in P
        PROVE  /\ IsFiniteSet(below[p])
               /\ Cardinality(below[p]) \in 0 .. Cardinality(P) - 1
    <2>1. below[p] \in SUBSET P /\ below[p] # P
      BY DEF Orders
    <2>2. IsFiniteSet(below[p]) /\ Cardinality(below[p]) <= Cardinality(P)
          /\ Cardinality(below[p]) # Cardinality(P)
      BY <2>1, FS_Subset DEF Orders
    <2>3. QED
      BY <1>1, <2>2, FS_CardinalityType
  <1>3. ASSUME NEW p \in P, NEW r \in P, r \in below[p]
        PROVE  Cardinality(below[r]) < Cardinality(below[p])
    <2>1. below[r] \in SUBSET below[p] /\ below[r] # below[p]
      BY <1>3 DEF Orders
    <2>2. /\ Cardinality(below[r]) <= Cardinality(below[p])
          /\ Cardinality(below[r]) # Cardinality(below[p])
      BY <1>2, <2>1, FS_Subset
    <2>3. QED
      BY <1>2, <2>2
  <1>4. ASSUME NEW k \in 0 .. Cardinality(P) - 1
        PROVE  \E p \in P : Cardinality(below[p]) = k
    <2> DEFINE f == [p \in P |-> Cardinality(below[p])]
               T == 0 .. Cardinality(P) - 1
    <2>1. f \in [P -> T]
      BY <1>2
    <2>2. ASSUME NEW p \in P, NEW r \in P, f[p] = f[r] PROVE p = r
      <3>1. p = r \/ p \in below[r] \/ r \in below[p]
        BY DEF Orders
      <3>2. QED
        BY <1>2, <1>3, <2>2, <3>1
    <2>3. f \in Injection(P, T)
      <3>1. \A p, r \in P : f[p] = f[r] => p = r
        BY <2>2
      <3> HIDE DEF f
      <3>2. QED
        BY <2>1, <3>1 DEF Injection, IsInjective
    <2>4. IsFiniteSet(T) /\ Cardinality(T) = Cardinality(P)
      BY <1>1, FS_Interval
    <2>5. f \in Surjection(P, T)
      BY <2>3, <2>4, FS_Injection
    <2>6. PICK p \in P : f[p] = k
      BY <2>5 DEF Surjection
    <2>7. QED
      BY <2>6
  <1>5. QED
    BY <1>1, <1>2, <1>3, <1>4

\* Every place has its number.
LEMMA Places ==
  ASSUME NEW P, NEW below, Orders(below, P)
  PROVE  /\ Cardinality(P) \in Nat
         /\ \A n \in 1 .. Cardinality(P) : Nth(below, n) \in P
         /\ \A m, n \in 1 .. Cardinality(P) : m < n => Nth(below, m) \in below[Nth(below, n)]
         /\ \A p \in P : \E n \in 1 .. Cardinality(P) : Nth(below, n) = p
  <1> DEFINE N == Cardinality(P)
  <1>1. N \in Nat
    BY Ranks
  <1>2. ASSUME NEW n \in 1 .. N
        PROVE  Nth(below, n) \in P /\ Cardinality(below[Nth(below, n)]) = n - 1
    <2>1. \E p \in P : Cardinality(below[p]) = n - 1
      <3>1. n - 1 \in 0 .. N - 1
        BY <1>1
      <3>2. QED
        BY <3>1, Ranks
    <2>2. DOMAIN below = P
      BY DEF Orders
    <2>3. QED
      BY <2>1, <2>2 DEF Nth
  <1>3. ASSUME NEW p \in P, NEW r \in P, Cardinality(below[p]) = Cardinality(below[r]) PROVE p = r
    <2>1. p = r \/ p \in below[r] \/ r \in below[p]
      BY DEF Orders
    <2>2. /\ p \in below[r] => Cardinality(below[p]) < Cardinality(below[r])
          /\ r \in below[p] => Cardinality(below[r]) < Cardinality(below[p])
          /\ Cardinality(below[p]) \in 0 .. N - 1
      BY Ranks
    <2>3. QED
      BY <1>1, <1>3, <2>1, <2>2
  <1>4. ASSUME NEW m \in 1 .. N, NEW n \in 1 .. N, m < n
        PROVE  Nth(below, m) \in below[Nth(below, n)]
    <2>1. PICK p \in P : p = Nth(below, m)
      BY <1>2
    <2>2. PICK r \in P : r = Nth(below, n)
      BY <1>2
    <2>3. Cardinality(below[p]) = m - 1 /\ Cardinality(below[r]) = n - 1
      BY <1>2, <2>1, <2>2
    <2>4. p = r \/ p \in below[r] \/ r \in below[p]
      BY DEF Orders
    <2>5. r \in below[p] => Cardinality(below[r]) < Cardinality(below[p])
      BY Ranks
    <2>6. QED
      BY <1>1, <1>4, <2>1, <2>2, <2>3, <2>4, <2>5
  <1>5. ASSUME NEW p \in P PROVE \E n \in 1 .. N : Nth(below, n) = p
    <2>1. PICK k \in 0 .. N - 1 : Cardinality(below[p]) = k
      BY Ranks
    <2>2. k + 1 \in 1 .. N /\ (k + 1) - 1 = k
      BY <1>1
    <2>3. Nth(below, k + 1) = p
      BY <1>2, <1>3, <2>1, <2>2
    <2>4. QED
      BY <2>2, <2>3
  <1>6. QED
    BY <1>1, <1>2, <1>4, <1>5

\* The rows at some places: each once, in the order of the places.
LEMMA RowsAtShape ==
  ASSUME NEW rows, NEW places \in SUBSET Nat, IsFiniteSet(places)
  PROVE  /\ Cardinality(places) \in Nat
         /\ \E h \in [1 .. Cardinality(places) -> places] :
              /\ RowsAt(rows, places) = [n \in 1 .. Cardinality(places) |-> rows[h[n]]]
              /\ \A m, n \in 1 .. Cardinality(places) : m < n => h[m] < h[n]
              /\ \A p \in places : \E n \in 1 .. Cardinality(places) : h[n] = p
  <1> DEFINE N == Cardinality(places)
             below == [p \in places |-> {r \in places : r < p}]
             h == [n \in 1 .. N |-> Nth(below, n)]
  <1>1. Orders(below, places)
    <2>1. below \in [places -> SUBSET places] /\ \A p \in places : p \notin below[p]
      OBVIOUS
    <2>2. ASSUME NEW p \in places, NEW r \in places, r \in below[p] PROVE below[r] \subseteq below[p]
      <3>1. r < p /\ below[r] = {x \in places : x < r} /\ below[p] = {x \in places : x < p}
        BY <2>2
      <3>2. ASSUME NEW x \in places, x < r PROVE x < p
        BY <3>1, <3>2
      <3>3. QED
        BY <3>1, <3>2
    <2>3. ASSUME NEW p \in places, NEW r \in places PROVE p = r \/ p \in below[r] \/ r \in below[p]
      OBVIOUS
    <2> HIDE DEF below
    <2>4. QED
      BY <2>1, <2>2, <2>3 DEF Orders
  <1>4. RowsAt(rows, places) = [n \in 1 .. N |-> rows[Nth(below, n)]]
    BY DEF RowsAt
  <1>3. \A p \in places : below[p] = {r \in places : r < p}
    OBVIOUS
  <1> HIDE DEF below
  <1>2. /\ N \in Nat
        /\ \A n \in 1 .. N : Nth(below, n) \in places
        /\ \A m, n \in 1 .. N : m < n => Nth(below, m) \in below[Nth(below, n)]
        /\ \A p \in places : \E n \in 1 .. N : Nth(below, n) = p
    BY <1>1, Places
  <1>5. RowsAt(rows, places) = [n \in 1 .. N |-> rows[h[n]]]
    BY <1>4
  <1>6. h \in [1 .. N -> places] /\ \A n \in 1 .. N : h[n] = Nth(below, n)
    BY <1>2
  <1>7. ASSUME NEW m \in 1 .. N, NEW n \in 1 .. N, m < n PROVE h[m] < h[n]
    <2>1. Nth(below, m) \in below[Nth(below, n)]
      BY <1>2, <1>7
    <2>2. QED
      BY <1>2, <1>3, <1>6, <2>1
  <1>8. \A p \in places : \E n \in 1 .. N : h[n] = p
    BY <1>2
  <1> HIDE DEF h
  <1>9. QED
    BY <1>2, <1>5, <1>6, <1>7, <1>8

\* A sequence of sequences.
Lists(lists) ==
  /\ Len(lists) \in Nat /\ DOMAIN lists = 1 .. Len(lists)
  /\ \A i \in 1 .. Len(lists) : Len(lists[i]) \in Nat /\ DOMAIN lists[i] = 1 .. Len(lists[i])

\* N steps through the rows of lists, u to a list and v to a row of it: each row
\* once, in their order.
Visits(lists, N, u, v) ==
  /\ \A n \in 1 .. N : u[n] \in DOMAIN lists /\ v[n] \in DOMAIN lists[u[n]]
  /\ \A m, n \in 1 .. N : m < n => u[m] < u[n] \/ (u[m] = u[n] /\ v[m] < v[n])
  /\ \A i \in DOMAIN lists : \A j \in DOMAIN lists[i] : \E n \in 1 .. N : u[n] = i /\ v[n] = j

\* Lists one after the other.
LEMMA JoinedShape ==
  ASSUME NEW lists, Lists(lists)
  PROVE  \E N \in Nat : \E u \in [1 .. N -> Nat] : \E v \in [1 .. N -> Nat] :
           Joined(lists) = [n \in 1 .. N |-> lists[u[n]][v[n]]] /\ Visits(lists, N, u, v)
  <1> DEFINE cells == UNION {{i} \X DOMAIN lists[i] : i \in DOMAIN lists}
             Before(c) == {d \in cells : d[1] < c[1] \/ (d[1] = c[1] /\ d[2] < c[2])}
             below == [c \in cells |-> Before(c)]
             N == Cardinality(cells)
  <1>1. \A c \in cells : /\ c[1] \in DOMAIN lists /\ c[2] \in DOMAIN lists[c[1]]
                         /\ c = <<c[1], c[2]>> /\ c[1] \in Nat /\ c[2] \in Nat
    BY DEF Lists
  <1>2. \A i \in DOMAIN lists : \A j \in DOMAIN lists[i] : <<i, j>> \in cells
    OBVIOUS
  <1>3. IsFiniteSet(cells)
    <2> DEFINE T == {{i} \X DOMAIN lists[i] : i \in DOMAIN lists}
    <2>1. IsFiniteSet(DOMAIN lists) /\ \A i \in DOMAIN lists : IsFiniteSet(DOMAIN lists[i])
      BY FS_Interval DEF Lists
    <2>2. \A i \in DOMAIN lists : IsFiniteSet({i} \X DOMAIN lists[i])
      BY <2>1, FS_Product, FS_Singleton
    <2>3. IsFiniteSet(T)
      <3> DEFINE g == [i \in DOMAIN lists |-> {i} \X DOMAIN lists[i]]
      <3>1. g \in Surjection(DOMAIN lists, T)
        BY DEF Surjection
      <3> HIDE DEF g, T
      <3>2. QED
        BY <2>1, <3>1, FS_Surjection
    <2>4. \A t \in T : IsFiniteSet(t)
      BY <2>2
    <2> HIDE DEF T
    <2>5. IsFiniteSet(UNION T)
      BY <2>3, <2>4, FS_UNION
    <2>6. QED
      BY <2>5 DEF T
  <1> HIDE DEF cells
  <1>4. Orders(below, cells)
    <2>1. below \in [cells -> SUBSET cells] /\ \A c \in cells : c \notin below[c]
      BY <1>1
    <2>2. ASSUME NEW p \in cells, NEW r \in cells, r \in below[p] PROVE below[r] \subseteq below[p]
      BY <1>1, <2>2
    <2>3. ASSUME NEW p \in cells, NEW r \in cells PROVE p = r \/ p \in below[r] \/ r \in below[p]
      BY <1>1
    <2>4. QED
      BY <1>3, <2>1, <2>2, <2>3 DEF Orders
  <1>6. Joined(lists) = [n \in 1 .. N |-> lists[Nth(below, n)[1]][Nth(below, n)[2]]]
    BY DEF Joined, cells
  <1>7. \A c \in cells : below[c] = Before(c)
    OBVIOUS
  <1> HIDE DEF below
  <1>5. /\ N \in Nat
        /\ \A n \in 1 .. N : Nth(below, n) \in cells
        /\ \A m, n \in 1 .. N : m < n => Nth(below, m) \in below[Nth(below, n)]
        /\ \A c \in cells : \E n \in 1 .. N : Nth(below, n) = c
    BY <1>4, Places
  <1> DEFINE u == [n \in 1 .. N |-> Nth(below, n)[1]]
             v == [n \in 1 .. N |-> Nth(below, n)[2]]
  <1>8. Joined(lists) = [n \in 1 .. N |-> lists[u[n]][v[n]]]
    BY <1>6
  <1>9. \A n \in 1 .. N : /\ u[n] \in DOMAIN lists /\ v[n] \in DOMAIN lists[u[n]]
                          /\ u[n] \in Nat /\ v[n] \in Nat
    BY <1>1, <1>5
  <1>10. u \in [1 .. N -> Nat] /\ v \in [1 .. N -> Nat]
    BY <1>9
  <1>11. ASSUME NEW m \in 1 .. N, NEW n \in 1 .. N, m < n
         PROVE  u[m] < u[n] \/ (u[m] = u[n] /\ v[m] < v[n])
    <2>1. Nth(below, m) \in below[Nth(below, n)] /\ Nth(below, n) \in cells
      BY <1>5, <1>11
    <2>2. QED
      BY <1>7, <2>1
  <1>12. ASSUME NEW i \in DOMAIN lists, NEW j \in DOMAIN lists[i]
         PROVE  \E n \in 1 .. N : u[n] = i /\ v[n] = j
    <2>1. PICK n \in 1 .. N : Nth(below, n) = <<i, j>>
      BY <1>2, <1>5
    <2>2. u[n] = i /\ v[n] = j
      BY <2>1
    <2>3. QED
      BY <2>2
  <1> HIDE DEF u, v, N
  <1>13. \A m, n \in 1 .. N : m < n => u[m] < u[n] \/ (u[m] = u[n] /\ v[m] < v[n])
    BY <1>11
  <1>14. \A i \in DOMAIN lists : \A j \in DOMAIN lists[i] : \E n \in 1 .. N : u[n] = i /\ v[n] = j
    BY <1>12
  <1>15. \A n \in 1 .. N : u[n] \in DOMAIN lists /\ v[n] \in DOMAIN lists[u[n]]
    BY <1>9
  <1>16. N \in Nat
    BY <1>5
  <1>17. Visits(lists, N, u, v)
    BY <1>13, <1>14, <1>15 DEF Visits
  <1> USE <1>10, <1>16
  <1> WITNESS N \in Nat
  <1> WITNESS u \in [1 .. N -> Nat]
  <1> WITNESS v \in [1 .. N -> Nat]
  <1>18. QED
    BY <1>8, <1>17

\* A function from 1 .. n is a sequence.
LEMMA SeqFromFunction ==
  ASSUME NEW S, NEW n \in Nat, NEW f \in [1 .. n -> S]
  PROVE  f \in Seq(S) /\ Len(f) = n
  OBVIOUS

\* The rows kept are those at some places, in order.
Chosen(kept, h, rows, places) ==
  /\ h \in [1 .. Len(kept) -> places]
  /\ \A n \in 1 .. Len(kept) : kept[n] = rows[h[n]]
  /\ \A m, n \in 1 .. Len(kept) : m < n => h[m] < h[n]
  /\ \A p \in places : \E n \in 1 .. Len(kept) : h[n] = p

\* The rows at some places are rows, as many as there are places, in order.
LEMMA RowsAtRows ==
  ASSUME NEW S, NEW rows \in Seq(S), NEW places \in SUBSET DOMAIN rows
  PROVE  LET kept == RowsAt(rows, places) IN
         /\ kept \in Seq(S) /\ Len(kept) <= Len(rows) /\ Len(kept) = Cardinality(places)
         /\ \E h : Chosen(kept, h, rows, places)
  <1> DEFINE N == Cardinality(places)
             kept == RowsAt(rows, places)
  <1>1. Len(rows) \in Nat /\ DOMAIN rows = 1 .. Len(rows) /\ rows \in [1 .. Len(rows) -> S]
    BY LenProperties
  <1>2. IsFiniteSet(places) /\ N <= Len(rows) /\ places \in SUBSET Nat
    <2>1. PICK n \in Nat : n = Len(rows)
      BY <1>1
    <2>2. IsFiniteSet(1 .. n) /\ Cardinality(1 .. n) = n
      BY FS_Interval
    <2>3. places \in SUBSET (1 .. n)
      BY <1>1, <2>1
    <2>4. QED
      BY <2>1, <2>2, <2>3, FS_Subset
  <1>3. N \in Nat
    BY <1>2, RowsAtShape
  <1>4. PICK h \in [1 .. N -> places] :
          /\ kept = [n \in 1 .. N |-> rows[h[n]]]
          /\ \A m, n \in 1 .. N : m < n => h[m] < h[n]
          /\ \A p \in places : \E n \in 1 .. N : h[n] = p
    BY <1>2, RowsAtShape
  <1>5. kept \in Seq(S) /\ Len(kept) = N
    <2>1. \A n \in 1 .. N : rows[h[n]] \in S
      BY <1>1, <1>4
    <2> HIDE DEF N
    <2>2. kept \in [1 .. N -> S]
      BY <1>4, <2>1
    <2>3. QED
      BY <1>3, <2>2, SeqFromFunction
  <1>6. \A n \in 1 .. N : kept[n] = rows[h[n]]
    BY <1>4
  <1> HIDE DEF kept
  <1>7. Chosen(kept, h, rows, places)
    BY <1>4, <1>5, <1>6 DEF Chosen
  <1>8. QED
    BY <1>2, <1>5, <1>7 DEF kept

\* Numbered rows stay so when some are left out.
LEMMA KeptNumbered ==
  ASSUME NEW rows, Numbered(rows), NEW places \in SUBSET DOMAIN rows
  PROVE  LET kept == RowsAt(rows, places) IN
         /\ Numbered(kept) /\ Len(kept) <= Len(rows)
         /\ \A n \in DOMAIN kept : \E p \in places : kept[n] = rows[p]
         /\ \A p \in places : \E n \in DOMAIN kept : kept[n] = rows[p]
  <1> DEFINE S == ToSet(rows)
             kept == RowsAt(rows, places)
  <1>1. rows \in Seq(S)
    BY DEF Numbered
  <1>2. /\ kept \in Seq(S) /\ Len(kept) <= Len(rows)
        /\ \E h : Chosen(kept, h, rows, places)
    BY <1>1, RowsAtRows
  <1> HIDE DEF kept, S
  <1>3. DOMAIN kept = 1 .. Len(kept) /\ Len(kept) \in Nat
    BY <1>2, LenProperties
  <1>4. PICK h : Chosen(kept, h, rows, places)
    BY <1>2
  <1> USE DEF Chosen
  <1>5. kept \in Seq(ToSet(kept))
    BY <1>2, <1>3 DEF ToSet
  <1>6. ASSUME NEW i \in DOMAIN kept PROVE "id" \in DOMAIN kept[i] /\ kept[i].id \in Int
    BY <1>3, <1>4 DEF Numbered
  <1>7. ASSUME NEW i \in DOMAIN kept, NEW j \in DOMAIN kept, i < j PROVE kept[i].id < kept[j].id
    <2>1. h[i] \in DOMAIN rows /\ h[j] \in DOMAIN rows /\ h[i] < h[j]
      BY <1>3, <1>4, <1>7
    <2>2. rows[h[i]].id < rows[h[j]].id
      BY <2>1 DEF Numbered
    <2>3. QED
      BY <1>3, <1>4, <2>2
  <1>8. Numbered(kept)
    BY <1>5, <1>6, <1>7 DEF Numbered
  <1>9. ASSUME NEW n \in DOMAIN kept PROVE \E p \in places : kept[n] = rows[p]
    BY <1>3, <1>4
  <1>10. ASSUME NEW p \in places PROVE \E n \in DOMAIN kept : kept[n] = rows[p]
    BY <1>3, <1>4
  <1>11. QED
    BY <1>2, <1>8, <1>9, <1>10 DEF kept

\* The rows of lists that are joined: each is a row of one of them.
LEMMA JoinedRows ==
  ASSUME NEW lists, Lists(lists), NEW S,
         \A i \in DOMAIN lists : \A j \in DOMAIN lists[i] : lists[i][j] \in S
  PROVE  LET all == Joined(lists) IN
         /\ all \in Seq(S) /\ Len(all) \in Nat /\ DOMAIN all = 1 .. Len(all)
         /\ \E u \in [1 .. Len(all) -> Nat] : \E v \in [1 .. Len(all) -> Nat] :
              /\ Visits(lists, Len(all), u, v)
              /\ \A n \in 1 .. Len(all) : all[n] = lists[u[n]][v[n]]
  <1> DEFINE all == Joined(lists)
  <1>1. PICK N \in Nat : \E u \in [1 .. N -> Nat] : \E v \in [1 .. N -> Nat] :
           all = [n \in 1 .. N |-> lists[u[n]][v[n]]] /\ Visits(lists, N, u, v)
    BY JoinedShape
  <1> HIDE DEF all
  <1>2. PICK u \in [1 .. N -> Nat] : \E v \in [1 .. N -> Nat] :
           all = [n \in 1 .. N |-> lists[u[n]][v[n]]] /\ Visits(lists, N, u, v)
    BY <1>1
  <1>3. PICK v \in [1 .. N -> Nat] :
           all = [n \in 1 .. N |-> lists[u[n]][v[n]]] /\ Visits(lists, N, u, v)
    BY <1>2
  <1>4. all \in [1 .. N -> S]
    BY <1>3 DEF Visits
  <1>5. all \in Seq(S) /\ Len(all) = N /\ DOMAIN all = 1 .. N
    BY <1>4, SeqFromFunction
  <1>6. \A n \in 1 .. N : all[n] = lists[u[n]][v[n]]
    BY <1>3
  <1>7. QED
    BY <1>3, <1>5, <1>6 DEF all

\* Numbered lists, one after the other, are numbered.
LEMMA JoinedNumbered ==
  ASSUME NEW lists, NumberedLists(lists)
  PROVE  LET all == Joined(lists) IN
         /\ Numbered(all)
         /\ \A n \in DOMAIN all : \E i \in DOMAIN lists : \E j \in DOMAIN lists[i] : all[n] = lists[i][j]
         /\ \A i \in DOMAIN lists : \A j \in DOMAIN lists[i] : \E n \in DOMAIN all : all[n] = lists[i][j]
  <1> DEFINE all == Joined(lists)
             S == UNION {{lists[i][j] : j \in DOMAIN lists[i]} : i \in DOMAIN lists}
  <1>1. Lists(lists)
    <2>1. Len(lists) \in Nat /\ DOMAIN lists = 1 .. Len(lists)
      BY LenProperties DEF NumberedLists
    <2>2. ASSUME NEW i \in 1 .. Len(lists)
          PROVE  Len(lists[i]) \in Nat /\ DOMAIN lists[i] = 1 .. Len(lists[i])
      <3>1. lists[i] \in Seq(ToSet(lists[i]))
        BY <2>1 DEF NumberedLists, Numbered
      <3>2. QED
        BY <3>1, LenProperties
    <2>3. QED
      BY <2>1, <2>2 DEF Lists
  <1>2. \A i \in DOMAIN lists : \A j \in DOMAIN lists[i] : lists[i][j] \in S
    OBVIOUS
  <1> HIDE DEF S
  <1>3. /\ all \in Seq(S) /\ Len(all) \in Nat /\ DOMAIN all = 1 .. Len(all)
        /\ \E u \in [1 .. Len(all) -> Nat] : \E v \in [1 .. Len(all) -> Nat] :
              /\ Visits(lists, Len(all), u, v)
              /\ \A n \in 1 .. Len(all) : all[n] = lists[u[n]][v[n]]
    BY <1>1, <1>2, JoinedRows
  <1> HIDE DEF all
  <1>4. PICK u \in [1 .. Len(all) -> Nat] : \E v \in [1 .. Len(all) -> Nat] :
              /\ Visits(lists, Len(all), u, v)
              /\ \A n \in 1 .. Len(all) : all[n] = lists[u[n]][v[n]]
    BY <1>3
  <1>5. PICK v \in [1 .. Len(all) -> Nat] :
              /\ Visits(lists, Len(all), u, v)
              /\ \A n \in 1 .. Len(all) : all[n] = lists[u[n]][v[n]]
    BY <1>4
  <1>6. all \in Seq(ToSet(all))
    <2>1. all \in [1 .. Len(all) -> ToSet(all)]
      BY <1>3 DEF ToSet
    <2>2. QED
      BY <1>3, <2>1, SeqFromFunction
  <1>7. ASSUME NEW n \in DOMAIN all PROVE "id" \in DOMAIN all[n] /\ all[n].id \in Int
    <2>1. Numbered(lists[u[n]]) /\ v[n] \in DOMAIN lists[u[n]]
      BY <1>3, <1>5 DEF NumberedLists, Visits
    <2>2. QED
      BY <1>3, <1>5, <2>1 DEF Numbered
  <1>8. ASSUME NEW m \in DOMAIN all, NEW n \in DOMAIN all, m < n PROVE all[m].id < all[n].id
    <2>1. /\ u[m] \in DOMAIN lists /\ v[m] \in DOMAIN lists[u[m]] /\ all[m] = lists[u[m]][v[m]]
          /\ u[n] \in DOMAIN lists /\ v[n] \in DOMAIN lists[u[n]] /\ all[n] = lists[u[n]][v[n]]
          /\ u[m] < u[n] \/ (u[m] = u[n] /\ v[m] < v[n])
      BY <1>3, <1>5, <1>8 DEF Visits
    <2>2. CASE u[m] < u[n]
      BY <2>1, <2>2 DEF NumberedLists
    <2>3. CASE u[m] = u[n] /\ v[m] < v[n]
      <3>1. Numbered(lists[u[n]])
        BY <2>1 DEF NumberedLists
      <3>2. QED
        BY <2>1, <2>3, <3>1 DEF Numbered
    <2>4. QED
      BY <2>1, <2>2, <2>3
  <1>9. Numbered(all)
    BY <1>6, <1>7, <1>8 DEF Numbered
  <1>10. \A n \in DOMAIN all : \E i \in DOMAIN lists : \E j \in DOMAIN lists[i] : all[n] = lists[i][j]
    BY <1>3, <1>5 DEF Visits
  <1>11. \A i \in DOMAIN lists : \A j \in DOMAIN lists[i] : \E n \in DOMAIN all : all[n] = lists[i][j]
    <2> SUFFICES ASSUME NEW i \in DOMAIN lists, NEW j \in DOMAIN lists[i]
                 PROVE  \E n \in DOMAIN all : all[n] = lists[i][j]
      OBVIOUS
    <2>1. PICK n \in 1 .. Len(all) : u[n] = i /\ v[n] = j
      BY <1>5 DEF Visits
    <2>2. QED
      BY <1>3, <1>5, <2>1
  <1>12. QED
    BY <1>9, <1>10, <1>11 DEF all

-----------------------------------------------------------------------------
(* What a listing shows: the first of some keys.                           *)
\* The first rows of a listing.
LEMMA FirstRows ==
  ASSUME NEW S, NEW rows \in Seq(S), NEW limit \in Nat \ {0}
  PROVE  LET first == FirstOf(rows, limit) IN
         /\ first \in Seq(S) /\ Len(first) \in Nat /\ DOMAIN first = 1 .. Len(first)
         /\ Len(rows) \in Nat /\ Len(first) = Lesser(limit, Len(rows))
         /\ Len(first) <= limit /\ Len(first) <= Len(rows)
         /\ \A i \in 1 .. Len(first) : first[i] = rows[i]
  <1> DEFINE n == Lesser(limit, Len(rows))
  <1>1. Len(rows) \in Nat
    BY LenProperties
  <1>2. n \in Nat /\ n <= limit /\ n <= Len(rows)
    BY <1>1 DEF Lesser
  <1>3. n \in 1 - 1 .. Len(rows) /\ 1 \in 1 .. Len(rows) + 1
    BY <1>1, <1>2
  <1> HIDE DEF n
  <1>4. SubSeq(rows, 1, n) \in Seq(S) /\ Len(SubSeq(rows, 1, n)) = n
        /\ \A i \in 1 .. n : SubSeq(rows, 1, n)[i] = rows[i]
    BY <1>1, <1>2, <1>3, SubSeqProperties
  <1>5. FirstOf(rows, limit) = SubSeq(rows, 1, n)
    BY DEF n, FirstOf
  <1>6. DOMAIN SubSeq(rows, 1, n) = 1 .. n
    BY <1>4, LenProperties
  <1>7. QED
    BY <1>1, <1>2, <1>4, <1>5, <1>6 DEF n

\* What a listing with its keys shown, of what is wanted, has to be.
Fair(shown, wanted, limit) ==
  Len(shown) <= limit /\ IsInjective(shown) /\ ToSet(shown) \subseteq wanted

InOrder(shown, wanted) ==
  /\ \A i, j \in DOMAIN shown : i < j => shown[i] < shown[j]
  /\ \A k \in wanted \ ToSet(shown) : \A i \in DOMAIN shown : shown[i] < k

\* What is shown are the first k of n keys, those of what is wanted.
Cut(shown, keys, n, k, limit, wanted) ==
  /\ n \in Nat /\ k \in Nat /\ limit \in Nat \ {0} /\ k <= n /\ k <= limit
  /\ DOMAIN keys = 1 .. n
  /\ wanted = {keys[i] : i \in 1 .. n}
  /\ shown = [i \in 1 .. k |-> keys[i]]

\* The first keys, each a key of its own.
LEMMA FirstDistinct ==
  ASSUME NEW shown, NEW keys, NEW n, NEW k, NEW limit, NEW wanted,
         Cut(shown, keys, n, k, limit, wanted), IsInjective(keys)
  PROVE  Fair(shown, wanted, limit) /\ Len(shown) = k /\ (ToSet(shown) = wanted <=> k = n)
  <1> USE DEF Cut
  <1>1. Len(shown) = k /\ DOMAIN shown = 1 .. k /\ \A i \in 1 .. k : i \in 1 .. n
    <2>1. shown \in [1 .. k -> wanted]
      OBVIOUS
    <2>2. QED
      BY <2>1, SeqFromFunction
  <1>2. IsInjective(shown)
    BY <1>1 DEF IsInjective
  <1>3. ToSet(shown) = {keys[i] : i \in 1 .. k}
    BY <1>1 DEF ToSet
  <1>4. ToSet(shown) \subseteq wanted
    BY <1>1, <1>3
  <1>5. ASSUME k # n PROVE ToSet(shown) # wanted
    <2>1. n \in 1 .. n /\ n \notin 1 .. k
      BY <1>5
    <2>2. keys[n] \in wanted
      BY <2>1
    <2>3. keys[n] \notin {keys[i] : i \in 1 .. k}
      BY <1>1, <2>1 DEF IsInjective
    <2>4. QED
      BY <1>3, <2>2, <2>3
  <1>6. QED
    BY <1>1, <1>2, <1>3, <1>4, <1>5 DEF Fair

Grows(keys) ==
  /\ \A i \in DOMAIN keys : keys[i] \in Int
  /\ \A i, j \in DOMAIN keys : i < j => keys[i] < keys[j]

\* The first keys, in their order.
LEMMA FirstInOrder ==
  ASSUME NEW shown, NEW keys, NEW n, NEW k, NEW limit, NEW wanted,
         Cut(shown, keys, n, k, limit, wanted), Grows(keys)
  PROVE  /\ Fair(shown, wanted, limit) /\ InOrder(shown, wanted)
         /\ Len(shown) = k /\ (ToSet(shown) = wanted <=> k = n)
  <1>1. IsInjective(keys)
    <2> SUFFICES ASSUME NEW i \in DOMAIN keys, NEW j \in DOMAIN keys, i # j PROVE keys[i] # keys[j]
      BY DEF IsInjective
    <2>1. i < j \/ j < i
      BY DEF Cut
    <2>2. keys[i] < keys[j] \/ keys[j] < keys[i]
      BY <2>1 DEF Grows
    <2>3. QED
      BY <2>2 DEF Grows
  <1>2. /\ Fair(shown, wanted, limit) /\ Len(shown) = k /\ (ToSet(shown) = wanted <=> k = n)
    BY <1>1, FirstDistinct
  <1> USE DEF Cut, Grows
  <1>3. DOMAIN shown = 1 .. k /\ \A i \in 1 .. k : i \in 1 .. n
    OBVIOUS
  <1>4. \A i, j \in DOMAIN shown : i < j => shown[i] < shown[j]
    BY <1>3
  <1>5. ASSUME NEW x \in wanted \ ToSet(shown), NEW i \in DOMAIN shown PROVE shown[i] < x
    <2>1. PICK j \in 1 .. n : x = keys[j]
      BY <1>5
    <2>2. j \notin 1 .. k
      <3> SUFFICES ASSUME j \in 1 .. k PROVE FALSE
        OBVIOUS
      <3>1. x = shown[j] /\ j \in DOMAIN shown
        BY <2>1
      <3>2. QED
        BY <3>1, <1>5 DEF ToSet
    <2>3. i < j
      BY <1>3, <2>2
    <2>4. QED
      BY <1>3, <2>1, <2>3
  <1>6. QED
    BY <1>2, <1>4, <1>5 DEF InOrder

IdsOfRows(rows) == {rows[i].id : i \in DOMAIN rows}

Honest(m, truncated, shown, wanted, limit) ==
  /\ Fair(shown, wanted, limit)
  /\ ~truncated /\ (m = "slow_logs" => Len(shown) < limit) => ToSet(shown) = wanted
  /\ m \in PlainListings /\ truncated => ToSet(shown) # wanted
  /\ m \in InTraceOrder => InOrder(shown, wanted)

\* The first of some numbered rows, by their numbers.
LEMMA FirstNumbered ==
  ASSUME NEW rows, Numbered(rows), NEW limit \in Nat \ {0}
  PROVE  LET events == FirstOf(rows, limit)
             shown  == [i \in DOMAIN events |-> events[i].id]
             wanted == IdsOfRows(rows)
         IN  /\ Fair(shown, wanted, limit) /\ InOrder(shown, wanted)
             /\ Len(events) \in Nat /\ Len(rows) \in Nat
             /\ Len(shown) = Len(events) /\ Len(events) <= Len(rows)
             /\ ToSet(shown) = wanted <=> Len(events) = Len(rows)
  <1> DEFINE events == FirstOf(rows, limit)
             n == Len(rows)
             k == Len(events)
             keys == [i \in 1 .. n |-> rows[i].id]
             shown == [i \in DOMAIN events |-> events[i].id]
             wanted == IdsOfRows(rows)
  <1>1. rows \in Seq(ToSet(rows)) /\ DOMAIN rows = 1 .. n
    BY LenProperties DEF Numbered
  <1>2. /\ k \in Nat /\ DOMAIN events = 1 .. k /\ n \in Nat /\ k <= limit /\ k <= n
        /\ \A i \in 1 .. k : events[i] = rows[i]
    BY <1>1, FirstRows
  <1>3. Grows(keys)
    BY <1>1 DEF Grows, Numbered
  <1> HIDE DEF events, n, k
  <1>4. Cut(shown, keys, n, k, limit, wanted)
    <2>1. shown = [i \in 1 .. k |-> keys[i]]
      BY <1>2
    <2>2. wanted = {keys[i] : i \in 1 .. n}
      BY <1>1 DEF IdsOfRows
    <2>3. DOMAIN keys = 1 .. n
      OBVIOUS
    <2> HIDE DEF shown, keys, wanted
    <2>4. QED
      BY <1>2, <2>1, <2>2, <2>3 DEF Cut
  <1> HIDE DEF shown, keys, wanted
  <1>5. /\ Fair(shown, wanted, limit) /\ InOrder(shown, wanted)
        /\ Len(shown) = k /\ (ToSet(shown) = wanted <=> k = n)
    BY <1>3, <1>4, FirstInOrder
  <1>6. QED
    BY <1>2, <1>5 DEF events, n, k, shown, wanted

\* A listing of numbered rows.
LEMMA ListingHonest ==
  ASSUME NEW rows, Numbered(rows), NEW limit \in Nat \ {0}, NEW m, m # "slow_logs"
  PROVE  LET list == Listing(rows, limit)
         IN  Honest(m, list.truncated, [i \in DOMAIN list.events |-> list.events[i].id],
                    IdsOfRows(rows), limit)
  <1> DEFINE events == FirstOf(rows, limit)
             list == Listing(rows, limit)
             shown == [i \in DOMAIN events |-> events[i].id]
             wanted == IdsOfRows(rows)
  <1>1. /\ Fair(shown, wanted, limit) /\ InOrder(shown, wanted)
        /\ Len(events) \in Nat /\ Len(rows) \in Nat
        /\ Len(events) <= Len(rows)
        /\ ToSet(shown) = wanted <=> Len(events) = Len(rows)
    BY FirstNumbered
  <1>2. list.events = events /\ (list.truncated <=> Len(rows) > Len(events))
    BY DEF Listing
  <1> HIDE DEF events, list, shown, wanted
  <1>3. list.truncated <=> Len(events) # Len(rows)
    BY <1>1, <1>2
  <1>4. Honest(m, list.truncated, shown, wanted, limit)
    BY <1>1, <1>3, Zenon DEF Honest
  <1>5. QED
    BY <1>2, <1>4 DEF shown, wanted, list

\* The numbers of what is kept of numbered rows.
LEMMA IdsKept ==
  ASSUME NEW rows, Numbered(rows), NEW places \in SUBSET DOMAIN rows
  PROVE  IdsOfRows(RowsAt(rows, places)) = {rows[i].id : i \in places}
  <1> DEFINE kept == RowsAt(rows, places)
  <1>1. /\ \A n \in DOMAIN kept : \E p \in places : kept[n] = rows[p]
        /\ \A p \in places : \E n \in DOMAIN kept : kept[n] = rows[p]
    BY KeptNumbered
  <1> HIDE DEF kept
  <1>2. IdsOfRows(kept) = {rows[i].id : i \in places}
    BY <1>1 DEF IdsOfRows
  <1>3. QED
    BY <1>2 DEF kept

RowsOfGroups(groups, places) ==
  LET wanted == RowsAt(groups, places)
  IN  Joined([i \in DOMAIN wanted |-> wanted[i].rows])

\* The rows of some groups.
LEMMA GroupRows ==
  ASSUME NEW groups, NumberedGroups(groups), NEW places \in SUBSET DOMAIN groups
  PROVE  LET rows == RowsOfGroups(groups, places) IN
         /\ Numbered(rows)
         /\ \A n \in DOMAIN rows : \E g \in places : \E j \in DOMAIN groups[g].rows :
              rows[n] = groups[g].rows[j]
         /\ \A g \in places : \A j \in DOMAIN groups[g].rows : \E n \in DOMAIN rows :
              rows[n] = groups[g].rows[j]
         /\ IdsOfRows(rows) = UNION {IdsOfRows(groups[g].rows) : g \in places}
  <1> DEFINE S == ToSet(groups)
             kept == RowsAt(groups, places)
             lists == [i \in DOMAIN kept |-> kept[i].rows]
             all == [g \in DOMAIN groups |-> groups[g].rows]
             rows == RowsOfGroups(groups, places)
  <1>1. groups \in Seq(S) /\ NumberedLists(all)
    BY DEF NumberedGroups
  <1>2. /\ kept \in Seq(S) /\ Len(kept) <= Len(groups) /\ Len(kept) = Cardinality(places)
        /\ \E h : Chosen(kept, h, groups, places)
    <2>1. groups \in Seq(S)
      BY <1>1
    <2> HIDE DEF S, lists, all, rows
    <2>2. QED
      BY <2>1, RowsAtRows
  <1> HIDE DEF kept, S
  <1>3. DOMAIN kept = 1 .. Len(kept) /\ Len(kept) \in Nat
    BY <1>2, LenProperties
  <1>4. PICK h : Chosen(kept, h, groups, places)
    BY <1>2
  <1> USE DEF Chosen
  <1>5. \A n \in DOMAIN lists : lists[n] = all[h[n]] /\ h[n] \in DOMAIN all
    BY <1>3, <1>4
  <1>6. NumberedLists(lists)
    <2>1. lists \in Seq(ToSet(lists))
      <3>1. lists \in [1 .. Len(kept) -> ToSet(lists)]
        BY <1>3 DEF ToSet
      <3> HIDE DEF lists
      <3>2. QED
        BY <1>3, <3>1, SeqFromFunction
    <2>2. \A n \in DOMAIN lists : Numbered(lists[n])
      BY <1>1, <1>5 DEF NumberedLists
    <2>3. ASSUME NEW g \in DOMAIN lists, NEW h1 \in DOMAIN lists, g < h1,
                 NEW i \in DOMAIN lists[g], NEW j \in DOMAIN lists[h1]
          PROVE  lists[g][i].id < lists[h1][j].id
      <3>1. h[g] < h[h1] /\ h[g] \in DOMAIN all /\ h[h1] \in DOMAIN all
        BY <1>3, <1>4, <2>3
      <3>2. lists[g] = all[h[g]] /\ lists[h1] = all[h[h1]]
        BY <1>5
      <3> HIDE DEF all, lists
      <3>3. QED
        BY <1>1, <2>3, <3>1, <3>2 DEF NumberedLists
    <2> HIDE DEF lists
    <2>4. QED
      BY <2>1, <2>2, <2>3 DEF NumberedLists
  <1>7. rows = Joined(lists)
    BY DEF RowsOfGroups, kept
  <1>8. /\ Numbered(rows)
        /\ \A n \in DOMAIN rows : \E i \in DOMAIN lists : \E j \in DOMAIN lists[i] : rows[n] = lists[i][j]
        /\ \A i \in DOMAIN lists : \A j \in DOMAIN lists[i] : \E n \in DOMAIN rows : rows[n] = lists[i][j]
    <2> HIDE DEF lists
    <2>1. QED
      BY <1>6, <1>7, JoinedNumbered
  <1> HIDE DEF rows
  <1>9. ASSUME NEW n \in DOMAIN rows
        PROVE  \E g \in places : \E j \in DOMAIN groups[g].rows : rows[n] = groups[g].rows[j]
    <2>1. PICK i \in DOMAIN lists : \E j \in DOMAIN lists[i] : rows[n] = lists[i][j]
      BY <1>8
    <2>2. lists[i] = groups[h[i]].rows /\ h[i] \in places
      BY <1>3, <1>4
    <2>3. QED
      BY <2>1, <2>2
  <1>10. ASSUME NEW g \in places, NEW j \in DOMAIN groups[g].rows
         PROVE  \E n \in DOMAIN rows : rows[n] = groups[g].rows[j]
    <2>1. PICK i \in 1 .. Len(kept) : h[i] = g
      BY <1>4
    <2>2. lists[i] = groups[g].rows /\ i \in DOMAIN lists
      BY <1>3, <1>4, <2>1
    <2> HIDE DEF lists
    <2>3. QED
      BY <1>8, <2>2
  <1>11. IdsOfRows(rows) = UNION {IdsOfRows(groups[g].rows) : g \in places}
    <2>1. ASSUME NEW x \in IdsOfRows(rows)
          PROVE  x \in UNION {IdsOfRows(groups[g].rows) : g \in places}
      BY <1>9 DEF IdsOfRows
    <2>2. ASSUME NEW x \in UNION {IdsOfRows(groups[g].rows) : g \in places}
          PROVE  x \in IdsOfRows(rows)
      BY <1>10 DEF IdsOfRows
    <2>3. QED
      BY <2>1, <2>2
  <1>12. QED
    BY <1>8, <1>9, <1>10, <1>11 DEF rows

-----------------------------------------------------------------------------
(* The listing modes, one by one.                                          *)
\* What the modes take from the rows they are given, with operators of their own.
Taken(q) ==
  CASE mode = "logs" -> IdsOf(q.rows, LAMBDA r : LogPasses(q, r))
    [] mode = "bookmarks" -> IdsOf(q.rows, LAMBDA r : TRUE)
    [] mode = "regions" ->
         UNION {IdsOf(q.groups[g].rows, LAMBDA r : q.category \in {"", q.groups[g].category}) :
                  g \in DOMAIN q.groups}
    [] mode \in {"fences", "objects"} ->
         UNION {IdsOf(q.groups[g].rows, LAMBDA r : q.group < 0 \/ q.groups[g].id = q.group) :
                  g \in DOMAIN q.groups}
    [] mode = "tasks" -> IdsOf(q.rows, LAMBDA r : Meets(r, ResolveWindow(q)))
    [] mode = "assets" -> IdsOf(q.rows, LAMBDA r : r.info /\ Meets(r, ResolveWindow(q)))
    [] mode = "packets" ->
         IdsOf(q.rows, LAMBDA r : r.id \in PacketWindow(q).start .. PacketWindow(q).end)
    [] mode = "crossings" ->
         {FrameNumber(q.frames, q.rows[i].time) :
            i \in {i \in DOMAIN q.rows : Exceeds(q, q.rows[i])}}
    [] mode = "inside" ->
         {p \in {r.id : r \in ToSet(Instances(q))} \X
                UNION {{e.id : e \in ToSet(q.timelines[t])} : t \in DOMAIN q.timelines} :
            \E r \in ToSet(Instances(q)), t \in DOMAIN q.timelines :
              \E e \in ToSet(q.timelines[t]) :
                /\ p = <<r.id, e.id>> /\ Meets(e, r)
                /\ q.prefix => e.prefixed}
    [] mode = "slow_logs" ->
         UNION {{<<f.id, q.rows[i].id>> :
                   i \in {i \in DOMAIN q.rows : /\ q.rows[i].time >= f.start - q.window
                                                /\ q.rows[i].time <= f.end + q.window}} :
                f \in {f \in ToSet(q.frames) : IsSlow(q, f)}}

\* An answer lists what was taken as it should; and what was taken is what was asked
\* for: these two are proved for each mode, and ListingsHonest follows from both.
Faithful ==
  /\ "truncated" \in DOMAIN answer
  /\ Honest(mode, answer.truncated, [i \in DOMAIN answer.events |-> KeyOfRow(answer.events[i])],
            Taken(question), question.limit)

AsAsked ==
  /\ Due(question) \subseteq Taken(question)
  /\ (mode = "packets" => Wanted(question) # {}) =>
       Taken(question) \subseteq Wanted(question) \cup Unasked(question)

LEMMA HonestIfAsAsked ==
  ASSUME mode \in AllListings, Faithful, AsAsked
  PROVE  ListingsHonest
  <1> DEFINE wanted == Wanted(question)
             due == Due(question)
             taken == Taken(question)
             unasked == Unasked(question)
  <1>1. /\ Len(Shown) <= question.limit
        /\ IsInjective(Shown)
        /\ ToSet(Shown) \subseteq taken
        /\ ~SaysTruncated /\ (mode = "slow_logs" => Len(Shown) < question.limit)
             => ToSet(Shown) = taken
        /\ mode \in PlainListings /\ SaysTruncated => ToSet(Shown) # taken
        /\ mode \in InTraceOrder =>
             /\ \A i, j \in DOMAIN Shown : i < j => Shown[i] < Shown[j]
             /\ \A k \in taken \ ToSet(Shown) : \A i \in DOMAIN Shown : Shown[i] < k
    <2>1. Honest(mode, answer.truncated, Shown, taken, question.limit)
      BY DEF Faithful, Shown
    <2>2. SaysTruncated <=> answer.truncated
      BY Zenon DEF Faithful, SaysTruncated
    <2> HIDE DEF taken
    <2>3. QED
      BY <2>1, <2>2, Zenon DEF Honest, Fair, InOrder
  <1>2. due \subseteq taken /\ ((mode = "packets" => wanted # {}) => taken \subseteq wanted \cup unasked)
    BY DEF AsAsked
  <1>3. mode \in PlainListings => mode # "packets" /\ unasked = {}
    BY DEF PlainListings, Unasked
  <1>4. ListingsHonest
          <=> (Listed(AllListings) =>
                 /\ Len(Shown) <= question.limit
                 /\ IsInjective(Shown)
                 /\ (mode = "packets" => wanted # {}) => ToSet(Shown) \subseteq wanted \cup unasked
                 /\ ~SaysTruncated /\ (mode = "slow_logs" => Len(Shown) < question.limit)
                      => due \subseteq ToSet(Shown)
                 /\ mode \in PlainListings /\ SaysTruncated => ToSet(Shown) # wanted
                 /\ mode \in InTraceOrder =>
                      /\ \A i, j \in DOMAIN Shown : i < j => Shown[i] < Shown[j]
                      /\ \A k \in due \ ToSet(Shown) : \A i \in DOMAIN Shown : Shown[i] < k)
    BY Zenon DEF ListingsHonest
  <1> HIDE DEF wanted, due, taken, unasked
  <1>5. (mode = "packets" => wanted # {}) => ToSet(Shown) \subseteq wanted \cup unasked
    BY <1>1, <1>2
  <1>6. ~SaysTruncated /\ (mode = "slow_logs" => Len(Shown) < question.limit)
          => due \subseteq ToSet(Shown)
    BY <1>1, <1>2
  <1>7. mode \in PlainListings /\ SaysTruncated => ToSet(Shown) # wanted
    BY <1>1, <1>2, <1>3
  <1>8. mode \in InTraceOrder =>
          /\ \A i, j \in DOMAIN Shown : i < j => Shown[i] < Shown[j]
          /\ \A k \in due \ ToSet(Shown) : \A i \in DOMAIN Shown : Shown[i] < k
    BY <1>1, <1>2
  <1>9. QED
    BY <1>1, <1>4, <1>5, <1>6, <1>7, <1>8, Zenon

\* The rows of a mode that are listed by their numbers.
LEMMA PlainHonest ==
  ASSUME mode \in PlainListings, question.limit \in Nat \ {0},
         NEW rows, Numbered(rows), answer = Listing(rows, question.limit),
         Taken(question) = IdsOfRows(rows)
  PROVE  Faithful
  <1> DEFINE list == Listing(rows, question.limit)
  <1>1. mode \in AllListings /\ mode \notin {"slow_logs", "crossings", "inside"}
    BY DEF PlainListings, AllListings, InTraceOrder
  <1>2. Honest(mode, list.truncated, [i \in DOMAIN list.events |-> list.events[i].id],
               IdsOfRows(rows), question.limit)
    BY <1>1, ListingHonest
  <1>3. \A row : KeyOfRow(row) = row.id
    BY <1>1 DEF KeyOfRow
  <1> HIDE DEF list
  <1>4. [i \in DOMAIN list.events |-> KeyOfRow(list.events[i])]
          = [i \in DOMAIN list.events |-> list.events[i].id]
    BY <1>3
  <1>5. answer = list /\ "truncated" \in DOMAIN list
    BY DEF list, Listing
  <1>6. QED
    BY <1>2, <1>4, <1>5 DEF Faithful

\* Lists of rows, some of which are kept.
LEMMA LogsHonest ==
  ASSUME mode = "logs", ListingQuestion(mode, question), answer = RunLogs(question)
  PROVE  Faithful
  <1> DEFINE places == {i \in DOMAIN question.rows : LogPasses(question, question.rows[i])}
             rows == RowsAt(question.rows, places)
  <1>1. Numbered(question.rows) /\ question.limit \in Nat \ {0}
    BY DEF ListingQuestion
  <1>2. Numbered(rows) /\ IdsOfRows(rows) = {question.rows[i].id : i \in places}
    <2>1. places \in SUBSET DOMAIN question.rows
      OBVIOUS
    <2> HIDE DEF places
    <2>2. QED
      BY <1>1, <2>1, KeptNumbered, IdsKept
  <1>3. answer = Listing(rows, question.limit)
    BY DEF RunLogs, Selected
  <1>4. Taken(question) = {question.rows[i].id : i \in places}
    BY DEF Taken, IdsOf
  <1> HIDE DEF places, rows
  <1>5. QED
    BY <1>1, <1>2, <1>3, <1>4, PlainHonest DEF PlainListings

\* Every row, without a filter.
LEMMA BookmarksHonest ==
  ASSUME mode = "bookmarks", ListingQuestion(mode, question), answer = RunBookmarks(question)
  PROVE  Faithful
  <1>1. Numbered(question.rows) /\ question.limit \in Nat \ {0}
    BY DEF ListingQuestion
  <1>2. answer = Listing(question.rows, question.limit)
    BY DEF RunBookmarks
  <1>3. Taken(question) = IdsOfRows(question.rows)
    BY DEF Taken, IdsOf, IdsOfRows
  <1>4. QED
    BY <1>1, <1>2, <1>3, PlainHonest DEF PlainListings

\* Rows that meet the window of a frame range.
LEMMA TasksHonest ==
  ASSUME mode = "tasks", ListingQuestion(mode, question), answer = RunTaskList(question)
  PROVE  Faithful
  <1> DEFINE w == ResolveWindow(question)
             places == {i \in DOMAIN question.rows :
                          /\ question.rows[i].start <= w.end
                          /\ question.rows[i].end >= w.start}
             rows == RowsAt(question.rows, places)
  <1>1. Numbered(question.rows) /\ question.limit \in Nat \ {0}
    BY DEF ListingQuestion
  <1> HIDE DEF w
  <1>2. Numbered(rows) /\ IdsOfRows(rows) = {question.rows[i].id : i \in places}
    <2>1. places \in SUBSET DOMAIN question.rows
      OBVIOUS
    <2> HIDE DEF places
    <2>2. QED
      BY <1>1, <2>1, KeptNumbered, IdsKept
  <1>3. answer = Listing(rows, question.limit)
    BY DEF RunTaskList, Overlapping, Selected, w
  <1>4. Taken(question) = {question.rows[i].id : i \in places}
    BY DEF Taken, IdsOf, Meets, w
  <1> HIDE DEF places, rows
  <1>5. QED
    BY <1>1, <1>2, <1>3, <1>4, PlainHonest DEF PlainListings

\* The rows of the groups that are asked for.
LEMMA GroupsHonest ==
  ASSUME mode \in {"fences", "objects"}, ListingQuestion(mode, question),
         answer = IF mode = "fences" THEN RunGpuFences(question) ELSE EmitObjects(question)
  PROVE  Faithful
  <1> DEFINE groups == question.groups
             places == {g \in DOMAIN groups : GroupChosen(question, groups[g])}
             rows == RowsOfGroups(groups, places)
  <1>1. NumberedGroups(groups) /\ question.limit \in Nat \ {0}
    BY DEF ListingQuestion
  <1>2. Numbered(rows) /\ IdsOfRows(rows) = UNION {IdsOfRows(groups[g].rows) : g \in places}
    <2>1. places \in SUBSET DOMAIN groups
      OBVIOUS
    <2> HIDE DEF places, groups
    <2>2. QED
      BY <1>1, <2>1, GroupRows
  <1>3. answer = Listing(rows, question.limit)
    BY DEF RunGpuFences, EmitObjects, RowsOf, Selected, RowsOfGroups
  <1>4. Taken(question) = UNION {IdsOfRows(groups[g].rows) : g \in places}
    <2> DEFINE Of(g) == {i \in DOMAIN groups[g].rows :
                           question.group < 0 \/ groups[g].id = question.group}
               all == UNION {{groups[g].rows[i].id : i \in Of(g)} : g \in DOMAIN groups}
               wanted == UNION {IdsOfRows(groups[g].rows) : g \in places}
    <2>1. Taken(question) = all
      BY DEF Taken, IdsOf
    <2>2. ASSUME NEW x \in all PROVE x \in wanted
      <3>1. PICK g \in DOMAIN groups : x \in {groups[g].rows[i].id : i \in Of(g)}
        BY <2>2
      <3>2. g \in places /\ x \in IdsOfRows(groups[g].rows)
        BY <3>1 DEF GroupChosen, IdsOfRows
      <3>3. QED
        BY <3>2
    <2>3. ASSUME NEW x \in wanted PROVE x \in all
      <3>1. PICK g \in places : x \in IdsOfRows(groups[g].rows)
        BY <2>3
      <3>2. g \in DOMAIN groups /\ Of(g) = DOMAIN groups[g].rows
        BY <3>1 DEF GroupChosen
      <3>3. x \in {groups[g].rows[i].id : i \in Of(g)}
        BY <3>1, <3>2 DEF IdsOfRows
      <3> HIDE DEF Of, places, wanted, groups
      <3>4. QED
        BY <3>2, <3>3, Zenon
    <2> HIDE DEF all, wanted
    <2>4. all = wanted
      BY <2>2, <2>3
    <2>5. QED
      BY <2>1, <2>4 DEF wanted
  <1> HIDE DEF places, rows, groups
  <1>5. QED
    BY <1>1, <1>2, <1>3, <1>4, PlainHonest DEF PlainListings

\* Regions: the end of one that is still open is filled in, its number stays.
LEMMA RegionsHonest ==
  ASSUME mode = "regions", ListingQuestion(mode, question), answer = RunRegions(question)
  PROVE  Faithful
  <1> DEFINE groups == question.groups
             places == {g \in DOMAIN groups : question.category \in {"", groups[g].category}}
             found == RowsOfGroups(groups, places)
             rows == [i \in DOMAIN found |-> RegionRow(question, found[i])]
  <1>1. NumberedGroups(groups) /\ question.limit \in Nat \ {0}
    BY DEF ListingQuestion
  <1>2. Numbered(found) /\ IdsOfRows(found) = UNION {IdsOfRows(groups[g].rows) : g \in places}
    <2>1. places \in SUBSET DOMAIN groups
      OBVIOUS
    <2> HIDE DEF places, groups
    <2>2. QED
      BY <1>1, <2>1, GroupRows
  <1>3. answer = Listing(rows, question.limit)
    BY DEF RunRegions, RowsOf, Selected, RowsOfGroups
  <1>4. Taken(question) = UNION {IdsOfRows(groups[g].rows) : g \in places}
    <2> DEFINE Of(g) == {i \in DOMAIN groups[g].rows :
                           question.category \in {"", groups[g].category}}
               all == UNION {{groups[g].rows[i].id : i \in Of(g)} : g \in DOMAIN groups}
               wanted == UNION {IdsOfRows(groups[g].rows) : g \in places}
    <2>1. Taken(question) = all
      BY DEF Taken, IdsOf
    <2>2. ASSUME NEW x \in all PROVE x \in wanted
      <3>1. PICK g \in DOMAIN groups : x \in {groups[g].rows[i].id : i \in Of(g)}
        BY <2>2
      <3>2. g \in places /\ x \in IdsOfRows(groups[g].rows)
        BY <3>1 DEF IdsOfRows
      <3>3. QED
        BY <3>2
    <2>3. ASSUME NEW x \in wanted PROVE x \in all
      <3>1. PICK g \in places : x \in IdsOfRows(groups[g].rows)
        BY <2>3
      <3>2. g \in DOMAIN groups /\ Of(g) = DOMAIN groups[g].rows
        BY <3>1
      <3>3. x \in {groups[g].rows[i].id : i \in Of(g)}
        BY <3>1, <3>2 DEF IdsOfRows
      <3> HIDE DEF Of, places, wanted, groups
      <3>4. QED
        BY <3>2, <3>3, Zenon
    <2> HIDE DEF all, wanted
    <2>4. all = wanted
      BY <2>2, <2>3
    <2>5. QED
      BY <2>1, <2>4 DEF wanted
  <1> HIDE DEF places, groups, found
  <1>5. Numbered(rows) /\ IdsOfRows(rows) = IdsOfRows(found)
    <2>1. DOMAIN rows = DOMAIN found /\ DOMAIN found = 1 .. Len(found) /\ Len(found) \in Nat
      BY <1>2, LenProperties DEF Numbered
    <2>2. ASSUME NEW i \in DOMAIN rows
          PROVE  /\ DOMAIN rows[i] = DOMAIN found[i]
                 /\ "id" \in DOMAIN found[i] /\ rows[i].id = found[i].id
      <3>1. "id" \in DOMAIN found[i]
        BY <1>2 DEF Numbered
      <3>2. QED
        BY <3>1 DEF RegionRow
    <2> HIDE DEF rows
    <2>3. rows \in Seq(ToSet(rows))
      <3>1. rows \in [1 .. Len(found) -> ToSet(rows)]
        <4>1. rows = [i \in DOMAIN rows |-> rows[i]]
          BY DEF rows
        <4>2. QED
          BY <2>1, <4>1 DEF ToSet
      <3>2. QED
        BY <2>1, <3>1, SeqFromFunction
    <2>4. \A i \in DOMAIN rows : "id" \in DOMAIN rows[i] /\ rows[i].id \in Int
      BY <1>2, <2>1, <2>2 DEF Numbered
    <2>5. \A i, j \in DOMAIN rows : i < j => rows[i].id < rows[j].id
      BY <1>2, <2>1, <2>2 DEF Numbered
    <2>6. IdsOfRows(rows) = IdsOfRows(found)
      BY <2>1, <2>2 DEF IdsOfRows
    <2>7. QED
      BY <2>3, <2>4, <2>5, <2>6 DEF Numbered
  <1> HIDE DEF rows
  <1>6. QED
    BY <1>1, <1>2, <1>3, <1>4, <1>5, PlainHonest DEF PlainListings

\* The rows of a mode that counts more than it lists.
LEMMA OrderedHonest ==
  ASSUME mode \in {"assets", "packets"}, question.limit \in Nat \ {0},
         NEW rows, Numbered(rows), answer.events = FirstOf(rows, question.limit),
         Taken(question) = IdsOfRows(rows), "truncated" \in DOMAIN answer,
         ~answer.truncated => Len(rows) <= Len(answer.events)
  PROVE  Faithful
  <1> DEFINE events == FirstOf(rows, question.limit)
             shown == [i \in DOMAIN events |-> events[i].id]
             wanted == IdsOfRows(rows)
  <1>1. mode \in AllListings /\ mode \notin PlainListings /\ mode \notin {"slow_logs", "crossings", "inside"}
    BY DEF PlainListings, AllListings, InTraceOrder
  <1>2. /\ Fair(shown, wanted, question.limit) /\ InOrder(shown, wanted)
        /\ Len(events) \in Nat /\ Len(rows) \in Nat /\ Len(events) <= Len(rows)
        /\ ToSet(shown) = wanted <=> Len(events) = Len(rows)
    BY FirstNumbered
  <1>3. \A row : KeyOfRow(row) = row.id
    BY <1>1 DEF KeyOfRow
  <1> HIDE DEF events, wanted
  <1>4. [i \in DOMAIN events |-> KeyOfRow(events[i])] = shown
    BY <1>3
  <1> HIDE DEF shown
  <1>5. ~answer.truncated => Len(events) = Len(rows)
    BY <1>2 DEF events
  <1>6. Honest(mode, answer.truncated, shown, wanted, question.limit)
    BY <1>1, <1>2, <1>5, Zenon DEF Honest
  <1>7. QED
    BY <1>4, <1>6 DEF Faithful, events, wanted

\* Rows that meet a window, those with a package alone.
LEMMA AssetsHonest ==
  ASSUME mode = "assets", ListingQuestion(mode, question), answer = RunAsset(question)
  PROVE  Faithful
  <1> DEFINE w == ResolveWindow(question)
             near == {i \in DOMAIN question.rows :
                        /\ question.rows[i].start <= w.end
                        /\ question.rows[i].end >= w.start}
             over == RowsAt(question.rows, near)
             known == {i \in DOMAIN over : over[i].info}
             rows == RowsAt(over, known)
  <1>1. Numbered(question.rows) /\ question.limit \in Nat \ {0}
    BY DEF ListingQuestion
  <1> HIDE DEF w
  <1>2. /\ Numbered(over)
        /\ \A n \in DOMAIN over : \E p \in near : over[n] = question.rows[p]
        /\ \A p \in near : \E n \in DOMAIN over : over[n] = question.rows[p]
    <2>1. near \in SUBSET DOMAIN question.rows
      OBVIOUS
    <2> HIDE DEF near
    <2>2. QED
      BY <1>1, <2>1, KeptNumbered
  <1>3. answer = AssetTable(over, question.limit)
    BY DEF RunAsset, Overlapping, Selected, w
  <1>4. Taken(question) = {question.rows[i].id : i \in {i \in near : question.rows[i].info}}
    <2>1. Taken(question)
            = {question.rows[i].id : i \in {i \in DOMAIN question.rows :
                 question.rows[i].info /\ Meets(question.rows[i], ResolveWindow(question))}}
      BY DEF Taken, IdsOf
    <2>2. {i \in DOMAIN question.rows :
             question.rows[i].info /\ Meets(question.rows[i], ResolveWindow(question))}
            = {i \in near : question.rows[i].info}
      BY Zenon DEF Meets, w
    <2>3. QED
      BY <2>1, <2>2
  <1> HIDE DEF over
  <1>5. /\ Numbered(rows) /\ Len(rows) <= Len(over)
        /\ IdsOfRows(rows) = {over[i].id : i \in known}
    <2>1. known \in SUBSET DOMAIN over
      OBVIOUS
    <2> HIDE DEF known
    <2>2. Numbered(rows) /\ Len(rows) <= Len(over)
      BY <1>2, <2>1, KeptNumbered
    <2>3. IdsOfRows(rows) = {over[i].id : i \in known}
      BY <1>2, <2>1, IdsKept
    <2>4. QED
      BY <2>2, <2>3
  <1>6. /\ answer.events = FirstOf(rows, question.limit)
        /\ answer.truncated <=> Len(answer.events) < Len(over)
        /\ "truncated" \in DOMAIN answer
    <2> DEFINE events == FirstOf(rows, question.limit)
               short == Len(events) < Len(over)
    <2>1. answer = [events |-> events, total |-> Len(over), truncated |-> short]
      BY <1>3 DEF AssetTable, Selected
    <2> HIDE DEF events, short
    <2>2. answer.events = events
      BY <2>1
    <2>3. answer.truncated = short /\ "truncated" \in DOMAIN answer
      BY <2>1
    <2>4. QED
      BY <2>2, <2>3 DEF events, short
  <1> HIDE DEF near
  <1>7. {over[i].id : i \in known} = {question.rows[i].id : i \in {i \in near : question.rows[i].info}}
    <2>1. ASSUME NEW i \in known
          PROVE  \E p \in {p \in near : question.rows[p].info} : over[i].id = question.rows[p].id
      BY <1>2
    <2>2. ASSUME NEW p \in {p \in near : question.rows[p].info}
          PROVE  \E i \in known : over[i].id = question.rows[p].id
      BY <1>2
    <2> HIDE DEF known
    <2>3. QED
      BY <2>1, <2>2
  <1> HIDE DEF known, rows
  <1>8. ~answer.truncated => Len(rows) <= Len(answer.events)
    <2>1. Len(over) \in Nat /\ Len(rows) \in Nat
      BY <1>2, <1>5, LenProperties DEF Numbered
    <2>2. Len(answer.events) \in Nat
      BY <1>1, <1>5, <1>6, FirstNumbered
    <2>3. QED
      BY <1>5, <1>6, <2>1, <2>2
  <1>9. QED
    BY <1>1, <1>4, <1>5, <1>6, <1>7, <1>8, OrderedHonest

\* Packets by their numbers, which are their places.
LEMMA PacketsHonest ==
  ASSUME mode = "packets", ListingQuestion(mode, question), answer = EmitPackets(question)
  PROVE  Faithful
  <1> DEFINE all == question.rows
             total == Len(all)
             w == PacketWindow(question)
             last == Lesser(w.end + 1, total)
             rows == SubSeq(all, w.start + 1, last)
  <1>1. /\ Numbered(all) /\ question.limit \in Nat \ {0}
        /\ \A i \in DOMAIN all : all[i].id = i - 1
        /\ question.packetStart \in Int /\ question.packetEnd \in Int
    BY DEF ListingQuestion
  <1>2. all \in Seq(ToSet(all)) /\ total \in Nat /\ DOMAIN all = 1 .. total
    BY <1>1, LenProperties DEF Numbered
  <1> HIDE DEF total, all
  <1>3. w.start \in Nat /\ w.end \in Nat /\ w.start <= w.end
    BY <1>1, <1>2 DEF PacketWindow, Lesser, Greater, total, all
  <1> HIDE DEF w
  <1>4. last \in Nat /\ last <= total /\ last <= w.end + 1
    BY <1>2, <1>3 DEF Lesser
  <1>5. /\ answer.events = FirstOf(rows, question.limit)
        /\ answer.truncated <=> Len(answer.events) < w.end - w.start + 1
        /\ "truncated" \in DOMAIN answer
    BY DEF EmitPackets, EnumeratePackets, w, all, total
  <1> DEFINE n == IF w.start + 1 <= last THEN last - w.start ELSE 0
  <1>6. /\ rows \in Seq(ToSet(all)) /\ Len(rows) = n
        /\ \A i \in 1 .. n : rows[i] = all[w.start + i]
    <2> HIDE DEF last
    <2> DEFINE m == w.start + 1
    <2>1. m \in Int /\ last \in Int /\ \A i \in m .. last : all[i] \in ToSet(all)
      BY <1>2, <1>3, <1>4
    <2>2. /\ n = IF m <= last THEN last - m + 1 ELSE 0
          /\ \A i \in 1 .. n : m + i - 1 = w.start + i
          /\ \A i \in 1 .. n : i \in 1 .. last - m + 1
      BY <1>3, <1>4
    <2> HIDE DEF m, n
    <2>3. /\ SubSeq(all, m, last) \in Seq(ToSet(all))
          /\ Len(SubSeq(all, m, last)) = IF m <= last THEN last - m + 1 ELSE 0
          /\ \A i \in 1 .. last - m + 1 : SubSeq(all, m, last)[i] = all[m + i - 1]
      BY <2>1, SubSeqProperties
    <2>4. rows = SubSeq(all, m, last)
      BY DEF m
    <2>5. QED
      BY <2>2, <2>3, <2>4
  <1>7. n \in Nat /\ n <= w.end - w.start + 1 /\ \A i \in 1 .. n : w.start + i \in 1 .. total
    BY <1>2, <1>3, <1>4
  <1> HIDE DEF n, last, rows
  <1>8. DOMAIN rows = 1 .. n
    BY <1>6, LenProperties
  <1>9. \A i \in 1 .. n : rows[i].id = w.start + i - 1 /\ "id" \in DOMAIN rows[i]
    <2> SUFFICES ASSUME NEW i \in 1 .. n
                 PROVE  rows[i].id = w.start + i - 1 /\ "id" \in DOMAIN rows[i]
      OBVIOUS
    <2>1. PICK p \in DOMAIN all : p = w.start + i
      BY <1>2, <1>7
    <2>2. rows[i] = all[p] /\ all[p].id = p - 1
      BY <1>1, <1>6, <2>1
    <2>3. "id" \in DOMAIN all[p]
      BY <1>1 DEF Numbered
    <2>4. QED
      BY <1>3, <2>1, <2>2, <2>3
  <1>10. Numbered(rows)
    <2>1. rows \in Seq(ToSet(rows))
      <3>1. rows \in [1 .. n -> ToSet(rows)]
        <4>1. rows = [i \in DOMAIN rows |-> rows[i]]
          BY <1>6
        <4>2. QED
          BY <1>8, <4>1 DEF ToSet
      <3>2. QED
        BY <1>7, <3>1, SeqFromFunction
    <2>2. \A i \in DOMAIN rows : "id" \in DOMAIN rows[i] /\ rows[i].id \in Int
      BY <1>3, <1>7, <1>8, <1>9
    <2>3. ASSUME NEW i \in DOMAIN rows, NEW j \in DOMAIN rows, i < j
          PROVE  rows[i].id < rows[j].id
      <3>1. rows[i].id = w.start + i - 1 /\ rows[j].id = w.start + j - 1 /\ i \in Nat /\ j \in Nat
        BY <1>8, <1>9
      <3>2. QED
        BY <1>3, <2>3, <3>1
    <2>4. QED
      BY <2>1, <2>2, <2>3 DEF Numbered
  <1>11. Taken(question) = IdsOfRows(rows)
    <2>1. Taken(question) = {all[i].id : i \in {i \in DOMAIN all : all[i].id \in w.start .. w.end}}
      BY DEF Taken, IdsOf, w, all
    <2>2. ASSUME NEW i \in DOMAIN all, all[i].id \in w.start .. w.end
          PROVE  \E j \in DOMAIN rows : all[i].id = rows[j].id
      <3>1. i \in 1 .. total /\ all[i].id = i - 1
        BY <1>1, <1>2
      <3>2. i - w.start \in 1 .. n
        BY <1>2, <1>3, <2>2, <3>1 DEF n, last, Lesser
      <3>3. QED
        BY <1>3, <1>8, <1>9, <3>1, <3>2
    <2>3. ASSUME NEW j \in DOMAIN rows
          PROVE  \E i \in DOMAIN all : all[i].id \in w.start .. w.end /\ all[i].id = rows[j].id
      <3>1. j \in 1 .. n /\ w.start + j \in DOMAIN all /\ all[w.start + j].id = w.start + j - 1
        BY <1>1, <1>2, <1>3, <1>7, <1>8
      <3>2. w.start + j - 1 \in w.start .. w.end
        BY <1>3, <1>7, <3>1
      <3>3. QED
        BY <1>9, <3>1, <3>2
    <2>4. QED
      BY <2>1, <2>2, <2>3 DEF IdsOfRows
  <1>12. ~answer.truncated => Len(rows) <= Len(answer.events)
    <2>1. Len(answer.events) \in Nat
      BY <1>1, <1>5, <1>10, FirstNumbered
    <2>2. QED
      BY <1>3, <1>5, <1>6, <1>7, <2>1
  <1>13. QED
    BY <1>1, <1>5, <1>10, <1>11, <1>12, OrderedHonest

\* Among some numbers there is a least.
LEMMA Least ==
  ASSUME NEW T \in SUBSET Nat, IsFiniteSet(T), T # {}
  PROVE  \E x \in T : \A y \in T : x <= y
  <1> DEFINE N == Cardinality(T)
  <1>0. PICK rows : rows = T
    OBVIOUS
  <1>1. /\ N \in Nat
        /\ \E h \in [1 .. N -> T] :
              /\ RowsAt(rows, T) = [n \in 1 .. N |-> rows[h[n]]]
              /\ \A m, n \in 1 .. N : m < n => h[m] < h[n]
              /\ \A p \in T : \E n \in 1 .. N : h[n] = p
    BY RowsAtShape
  <1> HIDE DEF N
  <1>2. PICK h \in [1 .. N -> T] :
              /\ \A m, n \in 1 .. N : m < n => h[m] < h[n]
              /\ \A p \in T : \E n \in 1 .. N : h[n] = p
    BY <1>1
  <1>3. 1 \in 1 .. N
    <2>1. PICK p : p \in T
      OBVIOUS
    <2>2. PICK n \in 1 .. N : h[n] = p
      BY <1>2, <2>1
    <2>3. QED
      BY <1>1, <2>2
  <1>4. ASSUME NEW y \in T PROVE h[1] <= y
    <2>1. PICK n \in 1 .. N : h[n] = y
      BY <1>2
    <2>2. n = 1 \/ 1 < n
      BY <1>1
    <2>3. h[1] \in Nat /\ (n = 1 \/ h[1] < h[n])
      BY <1>2, <1>3, <2>2
    <2>4. QED
      BY <2>1, <2>3
  <1>5. QED
    BY <1>2, <1>3, <1>4

\* A later time is not of an earlier frame.
LEMMA FrameGrows ==
  ASSUME NEW frames, frames \in Seq(ToSet(frames)), \A i \in DOMAIN frames : frames[i].start \in Int,
         NEW s \in Int, NEW t \in Int, s <= t
  PROVE  /\ FrameNumber(frames, s) \in Nat /\ FrameNumber(frames, t) \in Nat
         /\ FrameNumber(frames, s) <= FrameNumber(frames, t)
  <1> DEFINE S == {i \in DOMAIN frames : frames[i].start <= s}
             T == {i \in DOMAIN frames : frames[i].start <= t}
  <1>1. PICK n \in Nat : DOMAIN frames = 1 .. n
    BY LenProperties
  <1>2. IsFiniteSet(DOMAIN frames)
    BY <1>1, FS_Interval
  <1>3. S \subseteq T /\ IsFiniteSet(T)
    <2>1. S \subseteq T
      OBVIOUS
    <2>2. T \subseteq DOMAIN frames
      OBVIOUS
    <2>3. QED
      BY <1>2, <2>1, <2>2, FS_Subset
  <1> HIDE DEF S, T
  <1>4. IsFiniteSet(S) /\ Cardinality(S) <= Cardinality(T)
    BY <1>3, FS_Subset
  <1>5. Cardinality(S) \in Nat /\ Cardinality(T) \in Nat
    BY <1>3, <1>4, FS_CardinalityType
  <1>6. /\ FrameNumber(frames, s) = Greater(0, Cardinality(S) - 1)
        /\ FrameNumber(frames, t) = Greater(0, Cardinality(T) - 1)
    BY DEF FrameNumber, S, T
  <1>7. QED
    BY <1>4, <1>5, <1>6 DEF Greater

Firsts(rows) == {i \in DOMAIN rows : \A j \in 1 .. i - 1 : rows[j].frame # rows[i].frame}

\* The first row of each frame, when the frames never go back.
LEMMA FirstOfEachFrame ==
  ASSUME NEW S, NEW rows \in Seq(S), \A i \in DOMAIN rows : rows[i].frame \in Nat,
         \A i, j \in DOMAIN rows : i < j => rows[i].frame <= rows[j].frame
  PROVE  LET kept == RowsAt(rows, Firsts(rows)) IN
         /\ kept \in Seq(S) /\ Len(kept) <= Len(rows)
         /\ \A n \in DOMAIN kept : kept[n].frame \in Nat
         /\ \A m, n \in DOMAIN kept : m < n => kept[m].frame < kept[n].frame
         /\ {kept[n].frame : n \in DOMAIN kept} = {rows[i].frame : i \in DOMAIN rows}
  <1> DEFINE places == Firsts(rows)
             kept == RowsAt(rows, places)
  <1>1. Len(rows) \in Nat /\ DOMAIN rows = 1 .. Len(rows)
    BY LenProperties
  <1>2. /\ kept \in Seq(S) /\ Len(kept) <= Len(rows) /\ Len(kept) = Cardinality(places)
        /\ \E h : Chosen(kept, h, rows, places)
    <2>1. places \in SUBSET DOMAIN rows
      BY DEF Firsts
    <2> HIDE DEF places
    <2>2. QED
      BY <2>1, RowsAtRows
  <1> HIDE DEF kept
  <1>3. PICK h : Chosen(kept, h, rows, places)
    BY <1>2
  <1> USE DEF Chosen
  <1>4. Len(kept) \in Nat /\ DOMAIN kept = 1 .. Len(kept)
    BY <1>2, LenProperties
  <1>5. \A p \in places : p \in 1 .. Len(rows) /\ \A j \in 1 .. p - 1 : rows[j].frame # rows[p].frame
    BY <1>1 DEF Firsts
  <1> HIDE DEF places
  <1>6. \A n \in DOMAIN kept : h[n] \in places /\ kept[n] = rows[h[n]] /\ h[n] \in DOMAIN rows
    BY <1>1, <1>3, <1>4, <1>5
  <1>7. \A n \in DOMAIN kept : kept[n].frame \in Nat
    BY <1>6
  <1>8. ASSUME NEW m \in DOMAIN kept, NEW n \in DOMAIN kept, m < n
        PROVE  kept[m].frame < kept[n].frame
    <2>1. h[m] < h[n] /\ h[m] \in 1 .. Len(rows) /\ h[n] \in 1 .. Len(rows) /\ h[n] \in places
      BY <1>1, <1>3, <1>4, <1>6, <1>8
    <2>2. h[m] \in 1 .. h[n] - 1
      BY <1>1, <2>1
    <2>3. rows[h[m]].frame # rows[h[n]].frame /\ rows[h[m]].frame <= rows[h[n]].frame
      BY <1>1, <1>5, <2>1, <2>2
    <2>4. QED
      BY <1>6, <1>7, <2>3
  <1>9. ASSUME NEW i \in DOMAIN rows
        PROVE  \E n \in DOMAIN kept : kept[n].frame = rows[i].frame
    <2> DEFINE T == {j \in DOMAIN rows : rows[j].frame = rows[i].frame}
    <2>1. T \in SUBSET Nat /\ i \in T
      BY <1>1
    <2>2. IsFiniteSet(T)
      <3>1. PICK n \in Nat : DOMAIN rows = 1 .. n
        BY <1>1
      <3>2. IsFiniteSet(DOMAIN rows) /\ T \subseteq DOMAIN rows
        BY <3>1, FS_Interval
      <3>3. QED
        BY <3>2, FS_Subset
    <2>3. PICK x \in T : \A y \in T : x <= y
      BY <2>1, <2>2, Least
    <2>4. x \in places
      <3>1. x \in DOMAIN rows /\ rows[x].frame = rows[i].frame
        OBVIOUS
      <3>2. ASSUME NEW j \in 1 .. x - 1 PROVE rows[j].frame # rows[x].frame
        <4>1. j \in DOMAIN rows /\ ~(x <= j)
          BY <1>1, <3>1, <3>2
        <4>2. QED
          BY <2>3, <3>1, <4>1
      <3>3. QED
        BY <3>1, <3>2 DEF places, Firsts
    <2>5. PICK n \in 1 .. Len(kept) : h[n] = x
      BY <1>3, <2>4
    <2>6. QED
      BY <1>4, <1>6, <2>5
  <1>10. {kept[n].frame : n \in DOMAIN kept} = {rows[i].frame : i \in DOMAIN rows}
    BY <1>6, <1>9
  <1>11. QED
    BY <1>2, <1>7, <1>8, <1>10 DEF kept, places

\* The frames in which a counter crosses the threshold, by their numbers.
LEMMA CrossingsHonest ==
  ASSUME mode = "crossings", ListingQuestion(mode, question),
         answer = FramesOver(question)
  PROVE  Faithful
  <1> DEFINE samples == question.rows
             frames == question.frames
             limit == question.limit
             S == ToSet(samples)
             places == {i \in DOMAIN samples : Exceeds(question, samples[i])}
             crossings == RowsAt(samples, places)
             Row(s) == [frame |-> FrameNumber(frames, s.time), sample |-> s]
             R == {Row(s) : s \in S}
             rows == [i \in DOMAIN crossings |-> Row(crossings[i])]
             kept == RowsAt(rows, Firsts(rows))
             events == FirstOf(kept, limit)
  <1>1. /\ limit \in Nat \ {0} /\ samples \in Seq(S) /\ frames \in Seq(ToSet(frames))
        /\ \A i \in DOMAIN samples : samples[i].time \in Int
        /\ \A i, j \in DOMAIN samples : i < j => samples[i].time <= samples[j].time
        /\ \A i \in DOMAIN frames : frames[i].start \in Int
    BY DEF ListingQuestion, FramesInOrder, Numbered, IsSpan
  <1>2. /\ answer.events = events /\ (answer.truncated <=> Len(events) < Len(crossings))
        /\ "truncated" \in DOMAIN answer
    <2> DEFINE short == Len(events) < Len(crossings)
    <2>1. answer = [events |-> events, total |-> Len(crossings), truncated |-> short]
      BY DEF FramesOver, Selected, Firsts
    <2> HIDE DEF events, short
    <2>2. answer.events = events
      BY <2>1
    <2>3. answer.truncated = short /\ "truncated" \in DOMAIN answer
      BY <2>1
    <2>4. QED
      BY <2>2, <2>3 DEF short
  <1>3. Taken(question) = {FrameNumber(frames, samples[i].time) : i \in places}
    BY DEF Taken
  <1>4. places \in SUBSET DOMAIN samples
    OBVIOUS
  <1> HIDE DEF places, samples, frames, limit, S
  <1>5. /\ crossings \in Seq(S) /\ Len(crossings) <= Len(samples) /\ Len(crossings) = Cardinality(places)
        /\ \E h : Chosen(crossings, h, samples, places)
    BY <1>1, <1>4, RowsAtRows
  <1> HIDE DEF crossings, events
  <1>6. PICK h : Chosen(crossings, h, samples, places)
    BY <1>5
  <1> USE DEF Chosen
  <1>7. Len(crossings) \in Nat /\ DOMAIN crossings = 1 .. Len(crossings)
        /\ DOMAIN samples = 1 .. Len(samples) /\ Len(samples) \in Nat
    BY <1>1, <1>5, LenProperties
  <1>8. \A i \in DOMAIN crossings : /\ crossings[i] \in S /\ crossings[i] = samples[h[i]]
                                    /\ h[i] \in places /\ h[i] \in DOMAIN samples
    BY <1>4, <1>5, <1>6, <1>7
  <1>9. rows \in Seq(R) /\ DOMAIN rows = DOMAIN crossings /\ Len(rows) = Len(crossings)
    <2>1. rows \in [1 .. Len(crossings) -> R]
      BY <1>7, <1>8
    <2> HIDE DEF rows, R
    <2>2. QED
      BY <1>7, <2>1, SeqFromFunction
  <1>10. \A i \in DOMAIN rows : rows[i].frame = FrameNumber(frames, samples[h[i]].time)
    BY <1>8, <1>9
  <1> HIDE DEF rows, R
  <1>11. ASSUME NEW i \in DOMAIN rows, NEW j \in DOMAIN rows, i <= j
         PROVE  rows[i].frame \in Nat /\ rows[i].frame <= rows[j].frame
    <2>1. h[i] = h[j] \/ h[i] < h[j]
      BY <1>6, <1>7, <1>9, <1>11
    <2>2. /\ samples[h[i]].time \in Int /\ samples[h[j]].time \in Int
          /\ samples[h[i]].time <= samples[h[j]].time
      BY <1>1, <1>8, <1>9, <2>1
    <2>3. /\ FrameNumber(frames, samples[h[i]].time) \in Nat
          /\ FrameNumber(frames, samples[h[i]].time) <= FrameNumber(frames, samples[h[j]].time)
      BY <1>1, <2>2, FrameGrows
    <2>4. QED
      BY <1>10, <2>3
  <1>12. /\ \A i \in DOMAIN rows : rows[i].frame \in Nat
         /\ \A i, j \in DOMAIN rows : i < j => rows[i].frame <= rows[j].frame
    BY <1>7, <1>9, <1>11
  <1>13. /\ kept \in Seq(R) /\ Len(kept) <= Len(rows)
         /\ \A n \in DOMAIN kept : kept[n].frame \in Nat
         /\ \A m, n \in DOMAIN kept : m < n => kept[m].frame < kept[n].frame
         /\ {kept[n].frame : n \in DOMAIN kept} = {rows[i].frame : i \in DOMAIN rows}
    BY <1>9, <1>12, FirstOfEachFrame
  <1>14. Taken(question) = {kept[n].frame : n \in DOMAIN kept}
    <2>1. ASSUME NEW i \in DOMAIN rows
          PROVE  \E p \in places : rows[i].frame = FrameNumber(frames, samples[p].time)
      BY <1>8, <1>9, <1>10
    <2>2. ASSUME NEW p \in places
          PROVE  \E i \in DOMAIN rows : rows[i].frame = FrameNumber(frames, samples[p].time)
      BY <1>6, <1>7, <1>9, <1>10
    <2>3. {rows[i].frame : i \in DOMAIN rows} = {FrameNumber(frames, samples[p].time) : p \in places}
      BY <2>1, <2>2
    <2>4. QED
      BY <1>3, <1>13, <2>3
  <1> HIDE DEF kept
  <1>15. /\ events \in Seq(R) /\ Len(events) \in Nat /\ DOMAIN events = 1 .. Len(events)
         /\ Len(kept) \in Nat /\ Len(events) <= limit /\ Len(events) <= Len(kept)
         /\ \A i \in 1 .. Len(events) : events[i] = kept[i]
    BY <1>1, <1>13, FirstRows DEF events
  <1> DEFINE keys == [n \in 1 .. Len(kept) |-> kept[n].frame]
             shown == [i \in DOMAIN events |-> KeyOfRow(events[i])]
             wanted == Taken(question)
  <1>16. DOMAIN kept = 1 .. Len(kept)
    BY <1>13, LenProperties
  <1>17. Grows(keys)
    BY <1>13, <1>16 DEF Grows
  <1>18. shown = [i \in 1 .. Len(events) |-> keys[i]]
    <2>1. \A row : KeyOfRow(row) = row.frame
      BY DEF KeyOfRow
    <2>2. \A i \in 1 .. Len(events) : i \in 1 .. Len(kept)
      BY <1>15
    <2>3. QED
      BY <1>15, <2>1, <2>2
  <1>19. wanted = {keys[i] : i \in 1 .. Len(kept)}
    BY <1>14, <1>16
  <1>20. DOMAIN keys = 1 .. Len(kept)
    OBVIOUS
  <1> HIDE DEF shown, wanted, keys
  <1>21. Cut(shown, keys, Len(kept), Len(events), limit, wanted)
    BY <1>1, <1>15, <1>18, <1>19, <1>20 DEF Cut
  <1>22. /\ Fair(shown, wanted, limit) /\ InOrder(shown, wanted)
         /\ Len(shown) = Len(events) /\ (ToSet(shown) = wanted <=> Len(events) = Len(kept))
    BY <1>17, <1>21, FirstInOrder
  <1>23. ~answer.truncated => Len(events) = Len(kept)
    BY <1>2, <1>7, <1>9, <1>13, <1>15
  <1>24. mode \in AllListings /\ mode \notin PlainListings /\ mode # "slow_logs"
    BY DEF PlainListings, AllListings, InTraceOrder
  <1>25. Honest(mode, answer.truncated, shown, wanted, limit)
    BY <1>22, <1>23, <1>24, Zenon DEF Honest
  <1>26. QED
    BY <1>2, <1>25 DEF Faithful, shown, wanted, limit

\* Rows in order, each with a key of its own.
Table(rows) == rows \in Seq(ToSet(rows))

Differ(rows) == \A m, n \in DOMAIN rows : m # n => KeyOfRow(rows[m]) # KeyOfRow(rows[n])

Apart(lists) ==
  \A i, k \in DOMAIN lists : i # k =>
    \A j \in DOMAIN lists[i], l \in DOMAIN lists[k] : KeyOfRow(lists[i][j]) # KeyOfRow(lists[k][l])

\* Keys differ in what is kept.
LEMMA KeptTable ==
  ASSUME NEW rows, Table(rows), NEW places \in SUBSET DOMAIN rows
  PROVE  LET kept == RowsAt(rows, places) IN
         /\ Table(kept) /\ Len(kept) <= Len(rows)
         /\ \A n \in DOMAIN kept : \E p \in places : kept[n] = rows[p]
         /\ \A p \in places : \E n \in DOMAIN kept : kept[n] = rows[p]
         /\ Differ(rows) => Differ(kept)
  <1> DEFINE S == ToSet(rows)
             kept == RowsAt(rows, places)
  <1>1. rows \in Seq(S)
    BY DEF Table
  <1>2. /\ kept \in Seq(S) /\ Len(kept) <= Len(rows) /\ Len(kept) = Cardinality(places)
        /\ \E h : Chosen(kept, h, rows, places)
    BY <1>1, RowsAtRows
  <1> HIDE DEF kept, S
  <1>3. DOMAIN kept = 1 .. Len(kept) /\ Len(kept) \in Nat
    BY <1>2, LenProperties
  <1>4. PICK h : Chosen(kept, h, rows, places)
    BY <1>2
  <1> USE DEF Chosen
  <1>5. Table(kept)
    <2>1. kept \in Seq(ToSet(kept))
      BY <1>2, <1>3 DEF ToSet
    <2>2. QED
      BY <2>1 DEF Table
  <1>6. \A n \in DOMAIN kept : h[n] \in places /\ kept[n] = rows[h[n]]
    BY <1>3, <1>4
  <1>7. \A n \in DOMAIN kept : \E p \in places : kept[n] = rows[p]
    BY <1>6
  <1>8. \A p \in places : \E n \in DOMAIN kept : kept[n] = rows[p]
    BY <1>3, <1>4
  <1>9. ASSUME Differ(rows), NEW m \in DOMAIN kept, NEW n \in DOMAIN kept, m # n
        PROVE  KeyOfRow(kept[m]) # KeyOfRow(kept[n])
    <2>1. h[m] \in Int /\ h[n] \in Int /\ h[m] \in DOMAIN rows /\ h[n] \in DOMAIN rows
      <3>1. DOMAIN rows = 1 .. Len(rows) /\ Len(rows) \in Nat
        BY <1>1, LenProperties
      <3>2. QED
        BY <1>6, <3>1
    <2>2. m < n \/ n < m
      BY <1>3, <1>9
    <2>3. h[m] # h[n]
      BY <1>3, <1>4, <2>1, <2>2
    <2>4. KeyOfRow(rows[h[m]]) # KeyOfRow(rows[h[n]])
      BY <1>9, <2>1, <2>3 DEF Differ
    <2>5. QED
      BY <1>6, <2>4
  <1>10. QED
    BY <1>2, <1>5, <1>7, <1>8, <1>9 DEF Differ, kept

\* Keys differ in lists one after the other, when they do in each list and from
\* list to list.
LEMMA JoinedTable ==
  ASSUME NEW lists, Lists(lists)
  PROVE  LET all == Joined(lists) IN
         /\ Table(all)
         /\ \A n \in DOMAIN all : \E i \in DOMAIN lists : \E j \in DOMAIN lists[i] : all[n] = lists[i][j]
         /\ \A i \in DOMAIN lists : \A j \in DOMAIN lists[i] : \E n \in DOMAIN all : all[n] = lists[i][j]
         /\ (\A i \in DOMAIN lists : Differ(lists[i])) /\ Apart(lists) => Differ(all)
  <1> DEFINE all == Joined(lists)
             S == UNION {{lists[i][j] : j \in DOMAIN lists[i]} : i \in DOMAIN lists}
  <1>2. \A i \in DOMAIN lists : \A j \in DOMAIN lists[i] : lists[i][j] \in S
    OBVIOUS
  <1> HIDE DEF S
  <1>3. /\ all \in Seq(S) /\ Len(all) \in Nat /\ DOMAIN all = 1 .. Len(all)
        /\ \E u \in [1 .. Len(all) -> Nat] : \E v \in [1 .. Len(all) -> Nat] :
              /\ Visits(lists, Len(all), u, v)
              /\ \A n \in 1 .. Len(all) : all[n] = lists[u[n]][v[n]]
    BY <1>2, JoinedRows
  <1> HIDE DEF all
  <1>4. PICK u \in [1 .. Len(all) -> Nat] : \E v \in [1 .. Len(all) -> Nat] :
              /\ Visits(lists, Len(all), u, v)
              /\ \A n \in 1 .. Len(all) : all[n] = lists[u[n]][v[n]]
    BY <1>3
  <1>5. PICK v \in [1 .. Len(all) -> Nat] :
              /\ Visits(lists, Len(all), u, v)
              /\ \A n \in 1 .. Len(all) : all[n] = lists[u[n]][v[n]]
    BY <1>4
  <1>6. Table(all)
    <2>1. all \in [1 .. Len(all) -> ToSet(all)]
      BY <1>3 DEF ToSet
    <2>2. QED
      BY <1>3, <2>1, SeqFromFunction DEF Table
  <1>7. ASSUME \A i \in DOMAIN lists : Differ(lists[i]), Apart(lists),
               NEW m \in DOMAIN all, NEW n \in DOMAIN all, m # n
        PROVE  KeyOfRow(all[m]) # KeyOfRow(all[n])
    <2>1. /\ u[m] \in DOMAIN lists /\ v[m] \in DOMAIN lists[u[m]] /\ all[m] = lists[u[m]][v[m]]
          /\ u[n] \in DOMAIN lists /\ v[n] \in DOMAIN lists[u[n]] /\ all[n] = lists[u[n]][v[n]]
          /\ u[m] \in Nat /\ u[n] \in Nat /\ v[m] \in Nat /\ v[n] \in Nat
      BY <1>3, <1>5 DEF Visits
    <2>2. u[m] # u[n] \/ v[m] # v[n]
      <3>1. m < n \/ n < m
        BY <1>3, <1>7
      <3>2. CASE m < n
        <4>1. u[m] < u[n] \/ (u[m] = u[n] /\ v[m] < v[n])
          BY <1>3, <1>5, <3>2 DEF Visits
        <4>2. QED
          BY <2>1, <4>1
      <3>3. CASE n < m
        <4>1. u[n] < u[m] \/ (u[n] = u[m] /\ v[n] < v[m])
          BY <1>3, <1>5, <3>3 DEF Visits
        <4>2. QED
          BY <2>1, <4>1
      <3>4. QED
        BY <3>1, <3>2, <3>3
    <2>3. CASE u[m] # u[n]
      BY <1>7, <2>1, <2>3 DEF Apart
    <2>4. CASE u[m] = u[n] /\ v[m] # v[n]
      BY <1>7, <2>1, <2>4 DEF Differ
    <2>5. QED
      BY <2>2, <2>3, <2>4
  <1>8. \A n \in DOMAIN all : \E i \in DOMAIN lists : \E j \in DOMAIN lists[i] : all[n] = lists[i][j]
    BY <1>3, <1>5 DEF Visits
  <1>9. ASSUME NEW i \in DOMAIN lists, NEW j \in DOMAIN lists[i]
        PROVE  \E n \in DOMAIN all : all[n] = lists[i][j]
    <2>1. PICK n \in 1 .. Len(all) : u[n] = i /\ v[n] = j
      BY <1>5 DEF Visits
    <2>2. QED
      BY <1>3, <1>5, <2>1
  <1>10. QED
    BY <1>6, <1>7, <1>8, <1>9 DEF all, Differ

\* The first rows of a table, by their keys.
LEMMA PairsHonest ==
  ASSUME mode \in {"inside", "slow_logs"}, question.limit \in Nat \ {0},
         NEW rows, Table(rows), Differ(rows),
         answer.events = FirstOf(rows, question.limit),
         Taken(question) = {KeyOfRow(rows[n]) : n \in DOMAIN rows}, "truncated" \in DOMAIN answer,
         ~answer.truncated /\ (mode = "slow_logs" => Len(answer.events) < question.limit)
           => Len(rows) <= Len(answer.events)
  PROVE  Faithful
  <1> DEFINE limit == question.limit
             events == FirstOf(rows, limit)
             shown == [i \in DOMAIN events |-> KeyOfRow(events[i])]
             keys == [i \in DOMAIN rows |-> KeyOfRow(rows[i])]
             wanted == Taken(question)
  <1>1. mode \in AllListings /\ mode \notin PlainListings /\ mode \notin InTraceOrder
    BY DEF PlainListings, AllListings, InTraceOrder
  <1>2. DOMAIN rows = 1 .. Len(rows) /\ Len(rows) \in Nat /\ rows \in Seq(ToSet(rows))
    BY LenProperties DEF Table
  <1>3. /\ Len(events) \in Nat /\ DOMAIN events = 1 .. Len(events)
        /\ Len(events) <= limit /\ Len(events) <= Len(rows)
        /\ \A i \in 1 .. Len(events) : events[i] = rows[i]
    BY <1>2, FirstRows
  <1> HIDE DEF events
  <1>4. IsInjective(keys)
    BY Zenon DEF IsInjective, Differ
  <1>5. shown = [i \in 1 .. Len(events) |-> keys[i]]
    BY <1>2, <1>3
  <1>6. wanted = {keys[i] : i \in 1 .. Len(rows)}
    BY <1>2
  <1>7. DOMAIN keys = 1 .. Len(rows)
    BY <1>2
  <1>8. limit \in Nat \ {0} /\ answer.events = events
    BY DEF events
  <1> HIDE DEF shown, wanted, keys, limit
  <1>9. Cut(shown, keys, Len(rows), Len(events), limit, wanted)
    BY <1>2, <1>3, <1>5, <1>6, <1>7, <1>8 DEF Cut
  <1>10. Fair(shown, wanted, limit) /\ Len(shown) = Len(events)
         /\ (ToSet(shown) = wanted <=> Len(events) = Len(rows))
    BY <1>4, <1>9, FirstDistinct
  <1>11. ~answer.truncated /\ (mode = "slow_logs" => Len(events) < limit) => Len(events) = Len(rows)
    <2> SUFFICES ASSUME ~answer.truncated, mode = "slow_logs" => Len(events) < limit
                 PROVE  Len(events) = Len(rows)
      OBVIOUS
    <2>1. Len(rows) <= Len(events)
      BY <1>8 DEF limit
    <2>2. Len(events) \in Nat /\ Len(rows) \in Nat /\ Len(events) <= Len(rows)
      BY <1>2, <1>3
    <2>3. QED
      BY <2>1, <2>2
  <1>12. Honest(mode, answer.truncated, shown, wanted, limit)
    BY <1>1, <1>10, <1>11, Zenon DEF Honest
  <1>13. QED
    BY <1>8, <1>12 DEF Faithful, shown, wanted, limit

\* Numbered rows have different numbers.
LEMMA NumbersDiffer ==
  ASSUME NEW rows, Numbered(rows)
  PROVE  /\ DOMAIN rows = 1 .. Len(rows) /\ Len(rows) \in Nat
         /\ \A i, j \in DOMAIN rows : i # j => rows[i].id # rows[j].id
  <1>1. DOMAIN rows = 1 .. Len(rows) /\ Len(rows) \in Nat
    BY LenProperties DEF Numbered
  <1>2. ASSUME NEW i \in DOMAIN rows, NEW j \in DOMAIN rows, i # j PROVE rows[i].id # rows[j].id
    <2>1. i < j \/ j < i
      BY <1>1, <1>2
    <2>2. rows[i].id < rows[j].id \/ rows[j].id < rows[i].id
      BY <2>1 DEF Numbered
    <2>3. rows[i].id \in Int /\ rows[j].id \in Int
      BY DEF Numbered
    <2>4. QED
      BY <2>2, <2>3
  <1>3. QED
    BY <1>1, <1>2

\* The log lines near slow frames, by the frame's number and the line's.
LEMMA SlowLogsHonest ==
  ASSUME mode = "slow_logs", ListingQuestion(mode, question),
         answer = LogsAround(question)
  PROVE  Faithful
  <1> DEFINE frames == question.frames
             logs == question.rows
             w == question.window
             Slow(f) == IsSlow(question, f)
             sp == {i \in DOMAIN frames : Slow(frames[i])}
             slow == RowsAt(frames, sp)
             np(f) == {i \in DOMAIN logs : /\ logs[i].time >= Greater(0, f.start - w)
                                           /\ logs[i].time <= f.end + w}
             near(f) == RowsAt(logs, np(f))
             Near(f) == [i \in DOMAIN near(f) |-> [frame |-> f.id, log |-> near(f)[i]]]
             lists == [i \in 1 .. Len(slow) |-> Near(slow[i])]
             all == Joined(lists)
  <1>1. /\ question.limit \in Nat \ {0} /\ Numbered(logs) /\ Numbered(frames) /\ w \in Int
        /\ \A i \in DOMAIN frames : frames[i].start \in Int
        /\ \A i \in DOMAIN logs : logs[i].time \in Nat
    BY DEF ListingQuestion, FramesInOrder, IsSpan
  <1>2. answer.events = FirstOf(all, question.limit) /\ "truncated" \in DOMAIN answer
    BY DEF LogsAround, LogsNear, Selected
  <1>3. Taken(question)
          = UNION {{<<f.id, logs[i].id>> :
                      i \in {i \in DOMAIN logs : /\ logs[i].time >= f.start - w
                                                 /\ logs[i].time <= f.end + w}} :
                   f \in {f \in ToSet(frames) : Slow(f)}}
    BY DEF Taken
  <1> HIDE DEF frames, logs, w, Slow, all
  <1>4. /\ Numbered(slow)
        /\ \A n \in DOMAIN slow : \E p \in sp : slow[n] = frames[p]
        /\ \A p \in sp : \E n \in DOMAIN slow : slow[n] = frames[p]
    <2>1. sp \in SUBSET DOMAIN frames
      OBVIOUS
    <2> HIDE DEF sp
    <2>2. QED
      BY <1>1, <2>1, KeptNumbered
  <1> HIDE DEF slow
  <1>5. DOMAIN slow = 1 .. Len(slow) /\ Len(slow) \in Nat
        /\ \A i, j \in DOMAIN slow : i # j => slow[i].id # slow[j].id
    BY <1>4, NumbersDiffer
  <1>6. ASSUME NEW f
        PROVE  /\ DOMAIN near(f) = 1 .. Len(near(f)) /\ Len(near(f)) \in Nat
               /\ \A i, j \in DOMAIN near(f) : i # j => near(f)[i].id # near(f)[j].id
               /\ \A n \in DOMAIN near(f) : \E p \in np(f) : near(f)[n] = logs[p]
               /\ \A p \in np(f) : \E n \in DOMAIN near(f) : near(f)[n] = logs[p]
    <2>1. np(f) \in SUBSET DOMAIN logs
      OBVIOUS
    <2> HIDE DEF np
    <2>2. /\ Numbered(near(f))
          /\ \A n \in DOMAIN near(f) : \E p \in np(f) : near(f)[n] = logs[p]
          /\ \A p \in np(f) : \E n \in DOMAIN near(f) : near(f)[n] = logs[p]
      BY <1>1, <2>1, KeptNumbered
    <2> HIDE DEF near
    <2>3. QED
      BY <2>2, NumbersDiffer
  <1> HIDE DEF near
  <1>7. \A row : KeyOfRow(row) = <<row.frame, row.log.id>>
    BY DEF KeyOfRow
  <1>8. ASSUME NEW f
        PROVE  /\ DOMAIN Near(f) = DOMAIN near(f) /\ Len(Near(f)) = Len(near(f))
               /\ \A n \in DOMAIN Near(f) : KeyOfRow(Near(f)[n]) = <<f.id, near(f)[n].id>>
    <2>1. Near(f) \in [1 .. Len(near(f)) -> {Near(f)[n] : n \in 1 .. Len(near(f))}]
      BY <1>6
    <2>2. \A n \in DOMAIN Near(f) : KeyOfRow(Near(f)[n]) = <<f.id, near(f)[n].id>>
      BY <1>7
    <2>3. DOMAIN Near(f) = DOMAIN near(f)
      OBVIOUS
    <2> HIDE DEF Near
    <2>4. Len(Near(f)) = Len(near(f))
      BY <1>6, <2>1, SeqFromFunction
    <2>5. QED
      BY <2>2, <2>3, <2>4
  <1> HIDE DEF Near
  <1>9. DOMAIN lists = 1 .. Len(slow) /\ Len(lists) = Len(slow)
        /\ \A i \in DOMAIN lists : lists[i] = Near(slow[i])
    <2>1. lists \in [1 .. Len(slow) -> {Near(slow[i]) : i \in 1 .. Len(slow)}]
      OBVIOUS
    <2>2. DOMAIN lists = 1 .. Len(slow) /\ \A i \in DOMAIN lists : lists[i] = Near(slow[i])
      OBVIOUS
    <2> HIDE DEF lists
    <2>3. QED
      BY <1>5, <2>1, <2>2, SeqFromFunction
  <1> HIDE DEF lists
  <1>10. Lists(lists)
    <2> SUFFICES ASSUME NEW i \in 1 .. Len(lists)
                 PROVE  Len(lists[i]) \in Nat /\ DOMAIN lists[i] = 1 .. Len(lists[i])
      BY <1>5, <1>9 DEF Lists
    <2> DEFINE f == slow[i]
    <2>1. lists[i] = Near(f)
      BY <1>9
    <2> HIDE DEF f
    <2>2. QED
      BY <1>6, <1>8, <2>1
  <1>11. \A i \in DOMAIN lists : Differ(lists[i])
    <2> SUFFICES ASSUME NEW i \in DOMAIN lists,
                        NEW m \in DOMAIN lists[i], NEW n \in DOMAIN lists[i], m # n
                 PROVE  KeyOfRow(lists[i][m]) # KeyOfRow(lists[i][n])
      BY DEF Differ
    <2> DEFINE f == slow[i]
    <2>1. lists[i] = Near(f)
      BY <1>9
    <2> HIDE DEF f
    <2>2. m \in DOMAIN near(f) /\ n \in DOMAIN near(f)
      BY <1>8, <2>1
    <2>3. near(f)[m].id # near(f)[n].id
      BY <1>6, <2>2
    <2>4. KeyOfRow(lists[i][m]) = <<f.id, near(f)[m].id>>
      BY <1>8, <2>1
    <2>5. KeyOfRow(lists[i][n]) = <<f.id, near(f)[n].id>>
      BY <1>8, <2>1
    <2>6. QED
      BY <2>3, <2>4, <2>5
  <1>12. Apart(lists)
    <2> SUFFICES ASSUME NEW i \in DOMAIN lists, NEW k \in DOMAIN lists, i # k,
                        NEW j \in DOMAIN lists[i], NEW l \in DOMAIN lists[k]
                 PROVE  KeyOfRow(lists[i][j]) # KeyOfRow(lists[k][l])
      BY DEF Apart
    <2>1. lists[i] = Near(slow[i]) /\ lists[k] = Near(slow[k])
      BY <1>9
    <2>2. slow[i].id # slow[k].id
      BY <1>5, <1>9
    <2>3. KeyOfRow(lists[i][j]) = <<slow[i].id, near(slow[i])[j].id>>
      BY <1>8, <2>1
    <2>4. KeyOfRow(lists[k][l]) = <<slow[k].id, near(slow[k])[l].id>>
      BY <1>8, <2>1
    <2>5. QED
      BY <2>2, <2>3, <2>4
  <1>13. /\ Table(all) /\ Differ(all)
         /\ \A n \in DOMAIN all : \E i \in DOMAIN lists : \E j \in DOMAIN lists[i] : all[n] = lists[i][j]
         /\ \A i \in DOMAIN lists : \A j \in DOMAIN lists[i] : \E n \in DOMAIN all : all[n] = lists[i][j]
    BY <1>10, <1>11, <1>12, JoinedTable DEF all
  <1>14. ASSUME NEW n \in DOMAIN all PROVE KeyOfRow(all[n]) \in Taken(question)
    <2>1. PICK i \in DOMAIN lists : \E j \in DOMAIN lists[i] : all[n] = lists[i][j]
      BY <1>13
    <2>2. PICK j \in DOMAIN lists[i] : all[n] = lists[i][j]
      BY <2>1
    <2>3. PICK p \in sp : slow[i] = frames[p]
      BY <1>4, <1>5, <1>9
    <2> DEFINE f == frames[p]
    <2>4. f \in ToSet(frames) /\ Slow(f) /\ lists[i] = Near(f) /\ f.start \in Int
      BY <1>1, <1>9, <2>3 DEF ToSet
    <2> HIDE DEF f
    <2>5. j \in DOMAIN near(f) /\ KeyOfRow(all[n]) = <<f.id, near(f)[j].id>>
      BY <1>8, <2>2, <2>4
    <2>6. PICK x \in np(f) : near(f)[j] = logs[x]
      BY <1>6, <2>5
    <2>7. /\ x \in DOMAIN logs /\ logs[x].time >= f.start - w /\ logs[x].time <= f.end + w
      <3>1. x \in DOMAIN logs /\ logs[x].time >= Greater(0, f.start - w) /\ logs[x].time <= f.end + w
        OBVIOUS
      <3>2. logs[x].time \in Nat
        BY <1>1, <3>1
      <3>3. QED
        BY <1>1, <2>4, <3>1, <3>2 DEF Greater
    <2>8. QED
      BY <1>3, <2>4, <2>5, <2>6, <2>7
  <1>15. ASSUME NEW x \in Taken(question) PROVE \E n \in DOMAIN all : KeyOfRow(all[n]) = x
    <2>1. PICK f \in ToSet(frames) :
            /\ Slow(f)
            /\ x \in {<<f.id, logs[i].id>> :
                      i \in {i \in DOMAIN logs : /\ logs[i].time >= f.start - w
                                                 /\ logs[i].time <= f.end + w}}
      BY <1>3
    <2>2. PICK i \in DOMAIN logs : /\ logs[i].time >= f.start - w /\ logs[i].time <= f.end + w
                                   /\ x = <<f.id, logs[i].id>>
      BY <2>1
    <2>3. PICK p \in DOMAIN frames : f = frames[p]
      BY DEF ToSet
    <2>4. PICK s \in DOMAIN slow : slow[s] = f
      BY <1>4, <2>1, <2>3
    <2>5. i \in np(f)
      <3>1. logs[i].time \in Nat /\ f.start \in Int
        BY <1>1, <2>3
      <3>2. QED
        BY <1>1, <2>2, <3>1 DEF Greater
    <2>6. PICK j \in DOMAIN near(f) : near(f)[j] = logs[i]
      BY <1>6, <2>5
    <2>7. s \in DOMAIN lists /\ lists[s] = Near(f) /\ j \in DOMAIN lists[s]
      BY <1>5, <1>8, <1>9, <2>4
    <2>8. KeyOfRow(lists[s][j]) = x
      BY <1>8, <2>2, <2>6, <2>7
    <2>9. PICK n \in DOMAIN all : all[n] = lists[s][j]
      BY <1>13, <2>7
    <2>10. QED
      BY <2>8, <2>9
  <1>16. Taken(question) = {KeyOfRow(all[n]) : n \in DOMAIN all}
    BY <1>14, <1>15
  <1>17. Len(answer.events) < question.limit => Len(all) <= Len(answer.events)
    <2>1. all \in Seq(ToSet(all))
      BY <1>13 DEF Table
    <2>2. Len(all) \in Nat /\ Len(answer.events) = Lesser(question.limit, Len(all))
      BY <1>1, <1>2, <2>1, FirstRows
    <2>3. QED
      BY <1>1, <2>2 DEF Lesser
  <1>18. QED
    BY <1>1, <1>2, <1>13, <1>16, <1>17, PairsHonest

InsideRows(inst, events) ==
  LET over == RowsAt(events, {j \in DOMAIN events : Meets(events[j], inst)})
  IN  [j \in DOMAIN over |-> [region |-> inst.id, event |-> over[j]]]

TimelineRows(instances, events) ==
  Joined([i \in DOMAIN instances |-> InsideRows(instances[i], events)])

Covers(list, instances, events) ==
  /\ \A n \in DOMAIN list : \E i \in DOMAIN instances : \E j \in DOMAIN events :
       list[n] = [region |-> instances[i].id, event |-> events[j]]
         /\ Meets(events[j], instances[i])
  /\ \A i \in DOMAIN instances : \A j \in DOMAIN events :
       Meets(events[j], instances[i]) =>
         \E n \in DOMAIN list : list[n] = [region |-> instances[i].id, event |-> events[j]]

\* The events of one timeline inside instances of a region.
LEMMA RowsOfTimeline ==
  ASSUME mode = "inside",
         NEW instances, Len(instances) \in Nat, DOMAIN instances = 1 .. Len(instances),
         \A i, k \in DOMAIN instances : i # k => instances[i].id # instances[k].id,
         NEW events, Numbered(events)
  PROVE  LET list == TimelineRows(instances, events) IN
         Table(list) /\ Differ(list) /\ Covers(list, instances, events)
  <1> DEFINE places(r) == {j \in DOMAIN events : Meets(events[j], r)}
             over(r) == RowsAt(events, places(r))
             In(r) == [j \in DOMAIN over(r) |-> [region |-> r.id, event |-> over(r)[j]]]
             lists == [i \in DOMAIN instances |-> In(instances[i])]
             list == Joined(lists)
  <1>1. \A row : KeyOfRow(row) = <<row.region, row.event.id>>
    BY DEF KeyOfRow
  <1>2. TimelineRows(instances, events) = list
    BY DEF TimelineRows, InsideRows
  <1>3. ASSUME NEW r
        PROVE  /\ DOMAIN over(r) = 1 .. Len(over(r)) /\ Len(over(r)) \in Nat
               /\ \A i, j \in DOMAIN over(r) : i # j => over(r)[i].id # over(r)[j].id
               /\ \A n \in DOMAIN over(r) : \E p \in places(r) : over(r)[n] = events[p]
               /\ \A p \in places(r) : \E n \in DOMAIN over(r) : over(r)[n] = events[p]
    <2>1. places(r) \in SUBSET DOMAIN events
      OBVIOUS
    <2> HIDE DEF places
    <2>2. /\ Numbered(over(r))
          /\ \A n \in DOMAIN over(r) : \E p \in places(r) : over(r)[n] = events[p]
          /\ \A p \in places(r) : \E n \in DOMAIN over(r) : over(r)[n] = events[p]
      BY <2>1, KeptNumbered
    <2> HIDE DEF over
    <2>3. QED
      BY <2>2, NumbersDiffer
  <1> HIDE DEF over, list
  <1>4. ASSUME NEW r
        PROVE  /\ DOMAIN In(r) = DOMAIN over(r) /\ Len(In(r)) = Len(over(r))
               /\ \A n \in DOMAIN In(r) : /\ In(r)[n] = [region |-> r.id, event |-> over(r)[n]]
                                          /\ KeyOfRow(In(r)[n]) = <<r.id, over(r)[n].id>>
    <2>1. In(r) \in [1 .. Len(over(r)) -> {In(r)[n] : n \in 1 .. Len(over(r))}]
      BY <1>3
    <2>2. \A n \in DOMAIN In(r) : /\ In(r)[n] = [region |-> r.id, event |-> over(r)[n]]
                                  /\ KeyOfRow(In(r)[n]) = <<r.id, over(r)[n].id>>
      BY <1>1
    <2>3. DOMAIN In(r) = DOMAIN over(r)
      OBVIOUS
    <2> HIDE DEF In
    <2>4. Len(In(r)) = Len(over(r))
      BY <1>3, <2>1, SeqFromFunction
    <2>5. QED
      BY <2>2, <2>3, <2>4
  <1> HIDE DEF In
  <1>5. DOMAIN lists = DOMAIN instances /\ Len(lists) = Len(instances)
        /\ \A i \in DOMAIN lists : lists[i] = In(instances[i])
    <2>1. lists \in [1 .. Len(instances) -> {In(instances[i]) : i \in 1 .. Len(instances)}]
      OBVIOUS
    <2>2. DOMAIN lists = DOMAIN instances /\ \A i \in DOMAIN lists : lists[i] = In(instances[i])
      OBVIOUS
    <2> HIDE DEF lists
    <2>3. QED
      BY <2>1, <2>2, SeqFromFunction
  <1> HIDE DEF lists
  <1>6. Lists(lists)
    <2> SUFFICES ASSUME NEW i \in 1 .. Len(lists)
                 PROVE  Len(lists[i]) \in Nat /\ DOMAIN lists[i] = 1 .. Len(lists[i])
      BY <1>5 DEF Lists
    <2> DEFINE r == instances[i]
    <2>1. lists[i] = In(r)
      BY <1>5
    <2> HIDE DEF r
    <2>2. DOMAIN In(r) = DOMAIN over(r) /\ Len(In(r)) = Len(over(r))
      BY <1>4
    <2>3. DOMAIN over(r) = 1 .. Len(over(r)) /\ Len(over(r)) \in Nat
      BY <1>3
    <2>4. QED
      BY <2>1, <2>2, <2>3
  <1>7. \A i \in DOMAIN lists : Differ(lists[i])
    <2> SUFFICES ASSUME NEW i \in DOMAIN lists,
                        NEW m \in DOMAIN lists[i], NEW n \in DOMAIN lists[i], m # n
                 PROVE  KeyOfRow(lists[i][m]) # KeyOfRow(lists[i][n])
      BY DEF Differ
    <2> DEFINE r == instances[i]
    <2>1. lists[i] = In(r)
      BY <1>5
    <2> HIDE DEF r
    <2>2. m \in DOMAIN over(r) /\ n \in DOMAIN over(r)
      BY <1>4, <2>1
    <2>3. over(r)[m].id # over(r)[n].id
      BY <1>3, <2>2
    <2>4. KeyOfRow(lists[i][m]) = <<r.id, over(r)[m].id>>
      BY <1>4, <2>1
    <2>5. KeyOfRow(lists[i][n]) = <<r.id, over(r)[n].id>>
      BY <1>4, <2>1
    <2>6. QED
      BY <2>3, <2>4, <2>5
  <1>8. Apart(lists)
    <2> SUFFICES ASSUME NEW i \in DOMAIN lists, NEW k \in DOMAIN lists, i # k,
                        NEW j \in DOMAIN lists[i], NEW l \in DOMAIN lists[k]
                 PROVE  KeyOfRow(lists[i][j]) # KeyOfRow(lists[k][l])
      BY DEF Apart
    <2> DEFINE r == instances[i]
               s == instances[k]
    <2>1. lists[i] = In(r) /\ lists[k] = In(s)
      BY <1>5
    <2>2. r.id # s.id
      BY <1>5
    <2> HIDE DEF r, s
    <2>3. KeyOfRow(lists[i][j]) = <<r.id, over(r)[j].id>>
      BY <1>4, <2>1
    <2>4. KeyOfRow(lists[k][l]) = <<s.id, over(s)[l].id>>
      BY <1>4, <2>1
    <2>5. QED
      BY <2>2, <2>3, <2>4
  <1>9. /\ Table(list) /\ Differ(list)
        /\ \A n \in DOMAIN list : \E i \in DOMAIN lists : \E j \in DOMAIN lists[i] : list[n] = lists[i][j]
        /\ \A i \in DOMAIN lists : \A j \in DOMAIN lists[i] : \E n \in DOMAIN list : list[n] = lists[i][j]
    BY <1>6, <1>7, <1>8, JoinedTable DEF list
  <1>10. ASSUME NEW n \in DOMAIN list
         PROVE  \E i \in DOMAIN instances : \E j \in DOMAIN events :
                  list[n] = [region |-> instances[i].id, event |-> events[j]]
                    /\ Meets(events[j], instances[i])
    <2>1. PICK i \in DOMAIN lists : \E j \in DOMAIN lists[i] : list[n] = lists[i][j]
      BY <1>9
    <2>2. PICK j \in DOMAIN lists[i] : list[n] = lists[i][j]
      BY <2>1
    <2> DEFINE r == instances[i]
    <2>3. lists[i] = In(r) /\ i \in DOMAIN instances
      BY <1>5
    <2> HIDE DEF r
    <2>4. j \in DOMAIN over(r) /\ list[n] = [region |-> r.id, event |-> over(r)[j]]
      BY <1>4, <2>2, <2>3
    <2>5. PICK p \in places(r) : over(r)[j] = events[p]
      BY <1>3, <2>4
    <2>6. p \in DOMAIN events /\ Meets(events[p], r)
      OBVIOUS
    <2>7. QED
      BY <2>3, <2>4, <2>5, <2>6 DEF r
  <1>11. ASSUME NEW i \in DOMAIN instances, NEW p \in DOMAIN events, Meets(events[p], instances[i])
         PROVE  \E n \in DOMAIN list : list[n] = [region |-> instances[i].id, event |-> events[p]]
    <2> DEFINE r == instances[i]
    <2>1. p \in places(r)
      BY <1>11
    <2> HIDE DEF r
    <2>2. PICK j \in DOMAIN over(r) : over(r)[j] = events[p]
      BY <1>3, <2>1
    <2>3. i \in DOMAIN lists /\ lists[i] = In(r)
      BY <1>5 DEF r
    <2>4. j \in DOMAIN lists[i] /\ lists[i][j] = [region |-> r.id, event |-> events[p]]
      <3>1. j \in DOMAIN In(r) /\ In(r)[j] = [region |-> r.id, event |-> over(r)[j]]
        BY <1>4
      <3>2. QED
        BY <2>2, <2>3, <3>1
    <2>5. PICK n \in DOMAIN list : list[n] = lists[i][j]
      BY <1>9, <2>3, <2>4
    <2>6. QED
      BY <2>4, <2>5 DEF r
  <1>12. QED
    BY <1>2, <1>9, <1>10, <1>11 DEF Covers

\* The events inside instances of a region, by the instance's number and the
\* event's.
LEMMA InsideHonest ==
  ASSUME mode = "inside", ListingQuestion(mode, question),
         answer = EventsInside(question)
  PROVE  Faithful
  <1> DEFINE groups == question.groups
             timelines == question.timelines
             rowsAll == RowsOfGroups(groups, {g \in DOMAIN groups : TRUE})
             named == {i \in DOMAIN rowsAll : rowsAll[i].name = question.region}
             found == RowsAt(rowsAll, named)
             instances == Instances(question)
             L(t) == TimelineRows(instances, timelines[t])
             lists == [t \in DOMAIN timelines |-> L(t)]
             all == Joined(lists)
             Pass(e) == question.prefix => e.prefixed
             places == {i \in DOMAIN all : Pass(all[i].event)}
             kept == RowsAt(all, places)
             Cell(i, t, j) == [region |-> instances[i].id, event |-> timelines[t][j]]
  <1>1. question.limit \in Nat \ {0} /\ NumberedGroups(groups) /\ NumberedLists(timelines)
    BY DEF ListingQuestion
  <1>2. /\ answer.events = FirstOf(kept, question.limit)
        /\ answer.truncated <=> Len(answer.events) < Len(all)
        /\ "truncated" \in DOMAIN answer
    <2> DEFINE events == FirstOf(kept, question.limit)
               short == Len(events) < Len(all)
    <2>1. answer = [events |-> events, total |-> Len(all), truncated |-> short]
      BY DEF EventsInside, Overlapping, Selected, TimelineRows, InsideRows, Meets
    <2> HIDE DEF events, short
    <2>2. answer.events = events
      BY <2>1
    <2>3. answer.truncated = short /\ "truncated" \in DOMAIN answer
      BY <2>1
    <2>4. QED
      BY <2>2, <2>3 DEF events, short
  <1>3. Taken(question)
          = {p \in {r.id : r \in ToSet(instances)} \X
                   UNION {{e.id : e \in ToSet(timelines[t])} : t \in DOMAIN timelines} :
               \E r \in ToSet(instances), t \in DOMAIN timelines :
                 \E e \in ToSet(timelines[t]) :
                   /\ p = <<r.id, e.id>> /\ Meets(e, r)
                   /\ Pass(e)}
    BY DEF Taken
  <1>4. /\ DOMAIN instances = DOMAIN found
        /\ \A i \in DOMAIN found : "id" \in DOMAIN found[i] => instances[i].id = found[i].id
    BY DEF Instances, RowsOf, RowsOfGroups, Selected
  <1> HIDE DEF groups, timelines, instances, Pass
  <1>5. Numbered(rowsAll)
    <2> DEFINE every == {g \in DOMAIN groups : TRUE}
    <2>1. every \in SUBSET DOMAIN groups
      OBVIOUS
    <2> HIDE DEF every
    <2>2. Numbered(RowsOfGroups(groups, every))
      BY <1>1, <2>1, GroupRows
    <2>3. QED
      BY <2>2 DEF every
  <1> HIDE DEF rowsAll
  <1>6. Numbered(found)
    <2>1. named \in SUBSET DOMAIN rowsAll
      OBVIOUS
    <2> HIDE DEF named
    <2>2. QED
      BY <1>5, <2>1, KeptNumbered
  <1> HIDE DEF found
  <1>7. /\ Len(instances) \in Nat /\ DOMAIN instances = 1 .. Len(instances)
        /\ \A i, k \in DOMAIN instances : i # k => instances[i].id # instances[k].id
    <2>1. /\ DOMAIN found = 1 .. Len(found) /\ Len(found) \in Nat
          /\ \A i, j \in DOMAIN found : i # j => found[i].id # found[j].id
      BY <1>6, NumbersDiffer
    <2>2. \A i \in DOMAIN found : instances[i].id = found[i].id
      BY <1>4, <1>6 DEF Numbered
    <2>3. Len(instances) = Len(found)
      <3>1. instances \in [1 .. Len(found) -> {instances[i] : i \in 1 .. Len(found)}]
        <4>1. instances = [i \in DOMAIN instances |-> instances[i]]
          BY DEF instances, Instances
        <4>2. QED
          BY <1>4, <2>1, <4>1
      <3>2. QED
        BY <2>1, <3>1, SeqFromFunction
    <2>4. QED
      BY <1>4, <2>1, <2>2, <2>3
  <1>8. ASSUME NEW t \in DOMAIN timelines
        PROVE  /\ Table(L(t)) /\ Differ(L(t))
               /\ DOMAIN L(t) = 1 .. Len(L(t)) /\ Len(L(t)) \in Nat
               /\ \A n \in DOMAIN L(t) : \E i \in DOMAIN instances : \E j \in DOMAIN timelines[t] :
                    L(t)[n] = Cell(i, t, j) /\ Meets(timelines[t][j], instances[i])
               /\ \A i \in DOMAIN instances : \A j \in DOMAIN timelines[t] :
                    Meets(timelines[t][j], instances[i]) => \E n \in DOMAIN L(t) : L(t)[n] = Cell(i, t, j)
    <2>1. Numbered(timelines[t])
      BY <1>1 DEF NumberedLists
    <2>2. Table(L(t)) /\ Differ(L(t)) /\ Covers(L(t), instances, timelines[t])
      BY <1>7, <2>1, RowsOfTimeline
    <2> HIDE DEF L
    <2>3. DOMAIN L(t) = 1 .. Len(L(t)) /\ Len(L(t)) \in Nat
      BY <2>2, LenProperties DEF Table
    <2>4. QED
      BY <2>2, <2>3 DEF Covers
  <1> HIDE DEF L
  <1>9. /\ DOMAIN timelines = 1 .. Len(timelines) /\ Len(timelines) \in Nat
        /\ DOMAIN lists = DOMAIN timelines /\ Len(lists) = Len(timelines)
        /\ \A t \in DOMAIN timelines : lists[t] = L(t)
    <2>1. DOMAIN timelines = 1 .. Len(timelines) /\ Len(timelines) \in Nat
      BY <1>1, LenProperties DEF NumberedLists
    <2>2. lists \in [1 .. Len(timelines) -> {L(t) : t \in 1 .. Len(timelines)}]
      BY <2>1
    <2>3. DOMAIN lists = DOMAIN timelines /\ \A t \in DOMAIN timelines : lists[t] = L(t)
      OBVIOUS
    <2> HIDE DEF lists
    <2>4. QED
      BY <2>1, <2>2, <2>3, SeqFromFunction
  <1> HIDE DEF lists, all
  <1>10. Lists(lists)
    BY <1>8, <1>9 DEF Lists
  <1>11. \A row : KeyOfRow(row) = <<row.region, row.event.id>>
    BY DEF KeyOfRow
  <1>12. \A t \in DOMAIN lists : Differ(lists[t])
    BY <1>8, <1>9
  <1>13. Apart(lists)
    <2> SUFFICES ASSUME NEW s \in DOMAIN lists, NEW t \in DOMAIN lists, s # t,
                        NEW m \in DOMAIN lists[s], NEW n \in DOMAIN lists[t]
                 PROVE  KeyOfRow(lists[s][m]) # KeyOfRow(lists[t][n])
      BY DEF Apart
    <2>1. PICK i \in DOMAIN instances : \E j \in DOMAIN timelines[s] : lists[s][m] = Cell(i, s, j)
      <3>1. s \in DOMAIN timelines /\ lists[s] = L(s) /\ m \in DOMAIN L(s)
        BY <1>9
      <3>2. QED
        BY <1>8, <3>1
    <2>2. PICK j \in DOMAIN timelines[s] : lists[s][m] = Cell(i, s, j)
      BY <2>1
    <2>3. PICK k \in DOMAIN instances : \E l \in DOMAIN timelines[t] : lists[t][n] = Cell(k, t, l)
      <3>1. t \in DOMAIN timelines /\ lists[t] = L(t) /\ n \in DOMAIN L(t)
        BY <1>9
      <3>2. QED
        BY <1>8, <3>1
    <2>4. PICK l \in DOMAIN timelines[t] : lists[t][n] = Cell(k, t, l)
      BY <2>3
    <2>5. timelines[s][j].id # timelines[t][l].id
      <3>1. s < t \/ t < s
        BY <1>9
      <3>2. timelines[s][j].id < timelines[t][l].id \/ timelines[t][l].id < timelines[s][j].id
        BY <1>1, <1>9, <3>1 DEF NumberedLists
      <3>3. timelines[s][j].id \in Int /\ timelines[t][l].id \in Int
        BY <1>1, <1>9 DEF NumberedLists, Numbered
      <3>4. QED
        BY <3>2, <3>3
    <2>6. /\ KeyOfRow(lists[s][m]) = <<instances[i].id, timelines[s][j].id>>
          /\ KeyOfRow(lists[t][n]) = <<instances[k].id, timelines[t][l].id>>
      BY <1>11, <2>2, <2>4
    <2>7. QED
      BY <2>5, <2>6
  <1>14. /\ Table(all) /\ Differ(all)
         /\ \A n \in DOMAIN all : \E t \in DOMAIN lists : \E m \in DOMAIN lists[t] : all[n] = lists[t][m]
         /\ \A t \in DOMAIN lists : \A m \in DOMAIN lists[t] : \E n \in DOMAIN all : all[n] = lists[t][m]
    BY <1>10, <1>12, <1>13, JoinedTable DEF all
  <1>15. /\ Table(kept) /\ Len(kept) <= Len(all) /\ Differ(kept)
         /\ \A n \in DOMAIN kept : \E p \in places : kept[n] = all[p]
         /\ \A p \in places : \E n \in DOMAIN kept : kept[n] = all[p]
    <2>1. places \in SUBSET DOMAIN all
      OBVIOUS
    <2> HIDE DEF places
    <2>2. QED
      BY <1>14, <2>1, KeptTable
  <1> HIDE DEF kept
  <1>16. ASSUME NEW n \in DOMAIN kept PROVE KeyOfRow(kept[n]) \in Taken(question)
    <2>1. PICK p \in places : kept[n] = all[p]
      BY <1>15
    <2>2. p \in DOMAIN all /\ Pass(all[p].event)
      OBVIOUS
    <2>3. PICK t \in DOMAIN lists : \E m \in DOMAIN lists[t] : all[p] = lists[t][m]
      BY <1>14, <2>2
    <2>4. PICK m \in DOMAIN lists[t] : all[p] = lists[t][m]
      BY <2>3
    <2>5. t \in DOMAIN timelines /\ lists[t] = L(t)
      BY <1>9
    <2>6. PICK i \in DOMAIN instances : \E j \in DOMAIN timelines[t] :
            all[p] = Cell(i, t, j) /\ Meets(timelines[t][j], instances[i])
      BY <1>8, <2>4, <2>5
    <2>7. PICK j \in DOMAIN timelines[t] : all[p] = Cell(i, t, j) /\ Meets(timelines[t][j], instances[i])
      BY <2>6
    <2> DEFINE r == instances[i]
               e == timelines[t][j]
    <2>8. r \in ToSet(instances) /\ e \in ToSet(timelines[t]) /\ Meets(e, r)
      BY <2>7 DEF ToSet
    <2>9. all[p] = [region |-> r.id, event |-> e]
      BY <2>7
    <2> HIDE DEF r, e
    <2>10. Pass(e) /\ KeyOfRow(kept[n]) = <<r.id, e.id>>
      BY <1>11, <2>1, <2>2, <2>9
    <2>11. QED
      BY <1>3, <2>5, <2>8, <2>10
  <1>17. ASSUME NEW x \in Taken(question) PROVE \E n \in DOMAIN kept : KeyOfRow(kept[n]) = x
    <2>1. PICK r \in ToSet(instances), t \in DOMAIN timelines : \E e \in ToSet(timelines[t]) :
            x = <<r.id, e.id>> /\ Meets(e, r) /\ Pass(e)
      BY <1>3
    <2>2. PICK e \in ToSet(timelines[t]) : x = <<r.id, e.id>> /\ Meets(e, r) /\ Pass(e)
      BY <2>1
    <2>3. PICK i \in DOMAIN instances : r = instances[i]
      BY DEF ToSet
    <2>4. PICK j \in DOMAIN timelines[t] : e = timelines[t][j]
      BY DEF ToSet
    <2>5. PICK m \in DOMAIN L(t) : L(t)[m] = Cell(i, t, j)
      BY <1>8, <2>2, <2>3, <2>4
    <2>6. PICK p \in DOMAIN all : all[p] = L(t)[m]
      BY <1>9, <1>14
    <2>7. all[p] = [region |-> r.id, event |-> e]
      BY <2>3, <2>4, <2>5, <2>6
    <2>8. p \in places
      BY <2>2, <2>7
    <2>9. PICK n \in DOMAIN kept : kept[n] = all[p]
      BY <1>15, <2>8
    <2>10. KeyOfRow(kept[n]) = x
      BY <1>11, <2>2, <2>7, <2>9
    <2>11. QED
      BY <2>10
  <1>18. Taken(question) = {KeyOfRow(kept[n]) : n \in DOMAIN kept}
    BY <1>16, <1>17
  <1>19. ~answer.truncated => Len(kept) <= Len(answer.events)
    <2>1. kept \in Seq(ToSet(kept)) /\ all \in Seq(ToSet(all))
      BY <1>14, <1>15 DEF Table
    <2>2. Len(kept) \in Nat /\ Len(all) \in Nat
      BY <2>1, LenProperties
    <2>3. Len(answer.events) \in Nat
      BY <1>1, <1>2, <2>1, FirstRows
    <2>4. QED
      BY <1>2, <1>15, <2>2, <2>3
  <1>20. QED
    BY <1>1, <1>2, <1>15, <1>18, <1>19, PairsHonest

-----------------------------------------------------------------------------
(* What was asked for is what the modes take, mode by mode.                *)
\* The table of floors says of each severity what its place among them says; the
\* last of them passes no floor.
LEMMA FloorsAgree ==
  ASSUME NEW floor, NEW message, message.verbosity \in 1 .. 7
  PROVE  /\ message.verbosity <= VerbosityFloor(floor) => SevereEnough(floor, message)
         /\ SevereEnough(floor, message) /\ message.verbosity <= 6
              => message.verbosity <= VerbosityFloor(floor)
  <1> DEFINE name == IF floor = "warn" THEN "warning" ELSE floor
             level == message.verbosity
  <1>1. SevereEnough(floor, message)
          <=> /\ name = "fatal" => level <= 1
              /\ name = "error" => level <= 2
              /\ name = "warning" => level <= 3
              /\ name = "display" => level <= 4
              /\ name = "log" => level <= 5
              /\ name = "verbose" => level <= 6
              /\ name = "very_verbose" => level <= 7
    <2>1. DOMAIN Severities = 1 .. 7
      BY DEF Severities
    <2>2. 1 .. 7 = {1, 2, 3, 4, 5, 6, 7}
      OBVIOUS
    <2>3. SevereEnough(floor, message)
            <=> \A v \in {1, 2, 3, 4, 5, 6, 7} : Severities[v] = name => level <= v
      BY <2>1, <2>2 DEF SevereEnough
    <2>4. /\ Severities[1] = "fatal" /\ Severities[2] = "error" /\ Severities[3] = "warning"
          /\ Severities[4] = "display" /\ Severities[5] = "log" /\ Severities[6] = "verbose"
          /\ Severities[7] = "very_verbose"
      BY DEF Severities
    <2> HIDE DEF name, level
    <2>5. QED
      BY <2>3, <2>4
  <1>2. VerbosityFloor(floor)
          = CASE name = "fatal" -> 1 [] name = "error" -> 2 [] name = "warning" -> 3
              [] name = "display" -> 4 [] name = "log" -> 5 [] OTHER -> 6
    BY DEF VerbosityFloor, FloorOf
  <1>3. level \in 1 .. 7
    OBVIOUS
  <1> HIDE DEF name, level
  <1>4. QED
    BY <1>1, <1>2, <1>3 DEF level

LEMMA LogsAsAsked ==
  ASSUME mode = "logs", ListingQuestion(mode, question)
  PROVE  AsAsked
  <1> DEFINE rows == question.rows
             Passes(i) == LogPasses(question, rows[i])
             Right(i) == /\ SevereEnough(question.verbosity, rows[i])
                         /\ question.category # "" => rows[i].category = question.category
                         /\ question.grep => rows[i].matches
  <1>1. Numbered(rows) /\ \A i \in DOMAIN rows : rows[i].verbosity \in 1 .. 7
    BY DEF ListingQuestion
  <1>2. Taken(question) = {rows[i].id : i \in {i \in DOMAIN rows : Passes(i)}}
    BY DEF Taken, IdsOf
  <1>3. Wanted(question) = {rows[i].id : i \in {i \in DOMAIN rows : Right(i)}}
    BY DEF Wanted, IdsOf
  <1>4. Due(question)
          = Wanted(question) \cap {rows[i].id : i \in {i \in DOMAIN rows : rows[i].verbosity <= 6}}
    BY DEF Due, IdsOf
  <1>5. ASSUME NEW i \in DOMAIN rows
        PROVE  /\ Passes(i) => Right(i)
               /\ Right(i) /\ rows[i].verbosity <= 6 => Passes(i)
    <2>1. /\ rows[i].verbosity <= VerbosityFloor(question.verbosity)
               => SevereEnough(question.verbosity, rows[i])
          /\ SevereEnough(question.verbosity, rows[i]) /\ rows[i].verbosity <= 6
               => rows[i].verbosity <= VerbosityFloor(question.verbosity)
      BY <1>1, FloorsAgree
    <2>2. QED
      BY <2>1 DEF LogPasses
  <1>6. \A i, j \in DOMAIN rows : i # j => rows[i].id # rows[j].id
    BY <1>1, NumbersDiffer
  <1> HIDE DEF Passes, Right, rows
  <1>7. Taken(question) \subseteq Wanted(question)
    BY <1>2, <1>3, <1>5
  <1>8. ASSUME NEW x \in Due(question) PROVE x \in Taken(question)
    <2>1. PICK i \in DOMAIN rows : Right(i) /\ x = rows[i].id
      BY <1>3, <1>4
    <2>2. PICK j \in DOMAIN rows : rows[j].verbosity <= 6 /\ x = rows[j].id
      BY <1>4
    <2>3. i = j
      BY <1>6, <2>1, <2>2
    <2>4. QED
      BY <1>2, <1>5, <2>1, <2>2, <2>3
  <1>9. QED
    BY <1>7, <1>8 DEF AsAsked

\* Nothing is lost or added where there is no filter, or one on the group.
LEMMA GroupsAsAsked ==
  ASSUME mode \in {"bookmarks", "regions", "fences", "objects"}
  PROVE  AsAsked
  <1>1. Due(question) = Wanted(question)
    BY DEF Due
  <1>2. Taken(question) = Wanted(question)
    BY DEF Taken, Wanted
  <1>3. QED
    BY <1>1, <1>2 DEF AsAsked

\* A row meets the window of a frame range if it ends no earlier than the first
\* frame begins and begins no later than the last one ends.
LEMMA WindowOfFrames ==
  ASSUME NEW q, FramesInOrder(q), q.first \in Int, q.past \in Int, q.duration \in Int,
         NEW r, IsSpan(r), r.start <= q.duration, r.end >= 0
  PROVE  InFrames(q, r) <=> Meets(r, ResolveWindow(q))
  <1> DEFINE frames == q.frames
             w == ResolveWindow(q)
             given == 0 <= q.first /\ q.first < q.past
  <1>1. /\ DOMAIN frames = 1 .. Len(frames) /\ Len(frames) \in Nat
        /\ \A i \in DOMAIN frames : frames[i].id = i - 1
        /\ \A i \in DOMAIN frames : frames[i].start \in Int /\ frames[i].end \in Int
    BY LenProperties DEF FramesInOrder, Numbered, IsSpan
  <1>2. ASSUME NEW n \in Int, NEW f \in ToSet(frames), f.id = n
        PROVE  HasFrame(q, n) /\ f = frames[n + 1]
    <2>1. PICK i \in DOMAIN frames : f = frames[i]
      BY DEF ToSet
    <2>2. i = n + 1
      BY <1>1, <1>2, <2>1
    <2>3. QED
      BY <1>1, <2>1, <2>2 DEF HasFrame
  <1>3. ASSUME NEW n \in Int, HasFrame(q, n)
        PROVE  frames[n + 1] \in ToSet(frames) /\ frames[n + 1].id = n
    <2>1. n + 1 \in DOMAIN frames
      BY <1>1, <1>3 DEF HasFrame
    <2>2. QED
      BY <1>1, <2>1 DEF ToSet
  <1>4. /\ w.start = IF given /\ HasFrame(q, q.first) THEN frames[q.first + 1].start ELSE 0
        /\ w.end = IF given /\ HasFrame(q, q.past - 1) THEN frames[q.past].end ELSE q.duration
    BY DEF ResolveWindow
  <1>5. InFrames(q, r) <=>
          (given => \A f \in ToSet(frames) : /\ f.id = q.first => r.end >= f.start
                                             /\ f.id = q.past - 1 => r.start <= f.end)
    BY DEF InFrames
  <1>6. q.past - 1 \in Int /\ (q.past - 1) + 1 = q.past
    OBVIOUS
  <1> HIDE DEF w, given, frames
  <1>7. CASE ~given
    BY <1>4, <1>5, <1>7 DEF Meets, w
  <1>8. CASE given
    <2>1. (\A f \in ToSet(frames) : f.id = q.first => r.end >= f.start) <=> r.end >= w.start
      BY <1>2, <1>3, <1>4, <1>8
    <2>2. (\A f \in ToSet(frames) : f.id = q.past - 1 => r.start <= f.end) <=> r.start <= w.end
      BY <1>2, <1>3, <1>4, <1>6, <1>8
    <2>3. QED
      BY <1>5, <1>8, <2>1, <2>2 DEF Meets, w
  <1>9. QED
    BY <1>7, <1>8

LEMMA FramesAsAsked ==
  ASSUME mode \in {"tasks", "assets"}, ListingQuestion(mode, question)
  PROVE  AsAsked
  <1> DEFINE rows == question.rows
  <1>1. \A i \in DOMAIN rows : InFrames(question, rows[i]) <=> Meets(rows[i], ResolveWindow(question))
    BY WindowOfFrames DEF ListingQuestion
  <1>2. Due(question) = Wanted(question)
    BY DEF Due
  <1>3. Taken(question) = Wanted(question)
    <2>1. CASE mode = "tasks"
      <3>1. Taken(question) = {rows[i].id : i \in {i \in DOMAIN rows :
                                  Meets(rows[i], ResolveWindow(question))}}
        BY <2>1 DEF Taken, IdsOf
      <3>2. Wanted(question) = {rows[i].id : i \in {i \in DOMAIN rows : InFrames(question, rows[i])}}
        BY <2>1 DEF Wanted, IdsOf
      <3>3. QED
        BY <1>1, <3>1, <3>2
    <2>2. CASE mode = "assets"
      <3>1. Taken(question) = {rows[i].id : i \in {i \in DOMAIN rows :
                                  rows[i].info /\ Meets(rows[i], ResolveWindow(question))}}
        BY <2>2 DEF Taken, IdsOf
      <3>2. Wanted(question) = {rows[i].id : i \in {i \in DOMAIN rows :
                                  rows[i].info /\ InFrames(question, rows[i])}}
        BY <2>2 DEF Wanted, IdsOf
      <3>3. QED
        BY <1>1, <3>1, <3>2
    <2>3. QED
      BY <2>1, <2>2
  <1>4. QED
    BY <1>2, <1>3 DEF AsAsked

\* Where the bounds leave any packet between them, the window is theirs.
LEMMA PacketsAsAsked ==
  ASSUME mode = "packets", ListingQuestion(mode, question)
  PROVE  AsAsked
  <1> DEFINE q == question
             rows == question.rows
             w == PacketWindow(question)
             total == Len(rows)
  <1>1. /\ Numbered(rows) /\ q.limit \in Nat \ {0} /\ q.packetStart \in Int /\ q.packetEnd \in Int
        /\ \A i \in DOMAIN rows : rows[i].id = i - 1
    BY DEF ListingQuestion
  <1>2. total \in Nat /\ DOMAIN rows = 1 .. total
    BY <1>1, LenProperties DEF Numbered
  <1>3. Taken(q) = {rows[i].id : i \in {i \in DOMAIN rows : rows[i].id \in w.start .. w.end}}
    BY DEF Taken, IdsOf
  <1>4. Wanted(q) = {rows[i].id : i \in {i \in DOMAIN rows : InPackets(q, rows[i])}}
    BY DEF Wanted, IdsOf
  <1>5. Due(q) = Wanted(q)
    BY DEF Due
  <1> DEFINE start == IF q.packetStart >= 0 THEN q.packetStart ELSE Greater(total - q.limit, 0)
             end == IF q.packetEnd >= 0 THEN q.packetEnd ELSE Greater(total - 1, 0)
  <1>6. w.start = Lesser(start, end) /\ w.end = end
    BY DEF PacketWindow
  <1>7. start \in Nat /\ end \in Nat
    BY <1>1, <1>2 DEF Greater
  <1>8. ASSUME NEW i \in DOMAIN rows
        PROVE  /\ rows[i].id \in Nat
               /\ InPackets(q, rows[i]) <=> start <= rows[i].id /\ rows[i].id <= end
    <2>1. rows[i].id \in 0 .. total - 1
      BY <1>1, <1>2
    <2>2. InPackets(q, rows[i])
            <=> /\ IF q.packetStart >= 0 THEN rows[i].id >= q.packetStart
                   ELSE total - rows[i].id <= q.limit
                /\ q.packetEnd >= 0 => rows[i].id <= q.packetEnd
      BY DEF InPackets
    <2>3. QED
      BY <1>1, <1>2, <2>1, <2>2 DEF Greater
  <1> HIDE DEF start, end, w, total, rows
  <1>9. CASE start <= end
    <2>1. w.start = start /\ w.end = end
      BY <1>6, <1>9 DEF Lesser
    <2>2. \A i \in DOMAIN rows : InPackets(q, rows[i]) <=> rows[i].id \in w.start .. w.end
      BY <1>7, <1>8, <2>1
    <2>3. QED
      BY <1>3, <1>4, <1>5, <2>2 DEF AsAsked
  <1>10. CASE end < start
    <2>1. \A i \in DOMAIN rows : ~InPackets(q, rows[i])
      BY <1>7, <1>8, <1>10
    <2>2. Wanted(q) = {}
      BY <1>4, <2>1
    <2>3. QED
      BY <1>5, <2>2 DEF AsAsked
  <1>11. QED
    BY <1>7, <1>9, <1>10

\* The frames begun by a time are the first ones, and the last of them is the
\* current one.
LEMMA FrameIsCurrent ==
  ASSUME NEW q, FramesInOrder(q), NEW time \in Int
  PROVE  /\ FrameNumber(q.frames, time) \in 0 .. Len(q.frames)
         /\ \A n \in 0 .. Len(q.frames) : CurrentFrame(q, n, time) <=> n = FrameNumber(q.frames, time)
  <1> DEFINE frames == q.frames
             N == Len(frames)
             begun == {i \in DOMAIN frames : frames[i].start <= time}
             later == {i \in DOMAIN frames : frames[i].start > time}
  <1>1. /\ DOMAIN frames = 1 .. N /\ N \in Nat
        /\ \A i \in DOMAIN frames : frames[i].id = i - 1 /\ frames[i].start \in Int
        /\ \A i, j \in DOMAIN frames : i < j => frames[i].start <= frames[j].start
    BY LenProperties DEF FramesInOrder, Numbered, IsSpan
  <1>2. FrameNumber(frames, time) = Greater(0, Cardinality(begun) - 1)
    BY DEF FrameNumber
  <1> HIDE DEF N
  <1>3. \E k \in 0 .. N : begun = 1 .. k
    <2>1. CASE later = {}
      <3>1. begun = 1 .. N
        BY <1>1, <2>1
      <3>2. QED
        BY <1>1, <3>1
    <2>2. CASE later # {}
      <3>1. later \in SUBSET Nat /\ IsFiniteSet(later)
        <4>1. IsFiniteSet(1 .. N) /\ later \subseteq 1 .. N /\ 1 .. N \subseteq Nat
          BY <1>1, FS_Interval
        <4> HIDE DEF later
        <4>2. QED
          BY <4>1, FS_Subset
      <3> HIDE DEF later
      <3>2. PICK c \in later : \A i \in later : c <= i
        BY <2>2, <3>1, Least
      <3>3. c \in 1 .. N /\ frames[c].start > time
        BY <1>1, <3>2 DEF later
      <3>4. ASSUME NEW i \in 1 .. N PROVE frames[i].start <= time <=> i <= c - 1
        <4>1. i \in later <=> frames[i].start > time
          BY <1>1 DEF later
        <4>2. c < i => frames[c].start <= frames[i].start
          BY <1>1, <3>3
        <4>3. frames[i].start \in Int /\ frames[c].start \in Int
          BY <1>1, <3>3
        <4>4. QED
          BY <3>2, <3>3, <4>1, <4>2, <4>3
      <3>5. begun = 1 .. c - 1
        BY <1>1, <3>3, <3>4
      <3>6. QED
        BY <1>1, <3>3, <3>5
    <2>3. QED
      BY <2>1, <2>2
  <1>4. PICK k \in 0 .. N : begun = 1 .. k
    BY <1>3
  <1>5. \A i \in DOMAIN frames : frames[i].start <= time <=> i <= k
    <2> SUFFICES ASSUME NEW i \in DOMAIN frames PROVE frames[i].start <= time <=> i <= k
      OBVIOUS
    <2>1. i \in begun <=> frames[i].start <= time
      OBVIOUS
    <2>2. i \in begun <=> i <= k
      BY <1>1, <1>4
    <2>3. QED
      BY <2>1, <2>2
  <1>6. FrameNumber(frames, time) = Greater(0, k - 1)
    <2>1. k \in Nat
      BY <1>1
    <2>2. Cardinality(1 .. k) = k
      BY <2>1, FS_Interval
    <2> HIDE DEF begun
    <2>3. QED
      BY <1>2, <1>4, <2>2
  <1> HIDE DEF begun, frames
  <1>7. ASSUME NEW n \in 0 .. N
        PROVE  CurrentFrame(q, n, time) <=> (n = 0 \/ n + 1 <= k) /\ k <= n + 1
    <2>1. (\E f \in ToSet(frames) : f.id = n /\ f.start <= time) <=> n + 1 <= k
      <3>1. ASSUME NEW f \in ToSet(frames), f.id = n, f.start <= time PROVE n + 1 <= k
        <4>1. PICK i \in DOMAIN frames : f = frames[i]
          BY DEF ToSet
        <4>2. QED
          BY <1>1, <1>5, <3>1, <4>1
      <3>2. ASSUME n + 1 <= k PROVE \E f \in ToSet(frames) : f.id = n /\ f.start <= time
        <4>1. n + 1 \in DOMAIN frames
          BY <1>1, <3>2
        <4>2. frames[n + 1] \in ToSet(frames) /\ frames[n + 1].id = n /\ frames[n + 1].start <= time
          BY <1>1, <1>5, <3>2, <4>1 DEF ToSet
        <4>3. QED
          BY <4>2
      <3>3. QED
        BY <3>1, <3>2
    <2>2. (\A f \in ToSet(frames) : f.id > n => f.start > time) <=> k <= n + 1
      <3>1. ASSUME \A f \in ToSet(frames) : f.id > n => f.start > time, k > n + 1 PROVE FALSE
        <4>1. n + 2 \in DOMAIN frames
          BY <1>1, <3>1
        <4>2. /\ frames[n + 2] \in ToSet(frames) /\ frames[n + 2].id = n + 1
              /\ frames[n + 2].start <= time /\ frames[n + 2].start \in Int
          BY <1>1, <1>5, <3>1, <4>1 DEF ToSet
        <4>3. QED
          BY <3>1, <4>2
      <3>2. ASSUME k <= n + 1, NEW f \in ToSet(frames), f.id > n PROVE f.start > time
        <4>1. PICK i \in DOMAIN frames : f = frames[i]
          BY DEF ToSet
        <4>2. QED
          BY <1>1, <1>5, <3>2, <4>1
      <3>3. QED
        BY <3>1, <3>2
    <2>3. QED
      BY <2>1, <2>2 DEF CurrentFrame, frames
  <1>8. QED
    BY <1>1, <1>6, <1>7 DEF Greater, frames, N

LEMMA CrossingsAsAsked ==
  ASSUME mode = "crossings", ListingQuestion(mode, question)
  PROVE  AsAsked
  <1> DEFINE q == question
             rows == question.rows
             Over(s) == s.value > q.threshold \/ (q.orEqual /\ s.value = q.threshold)
             Of(s) == FrameNumber(q.frames, s.time)
  <1>1. /\ FramesInOrder(q) /\ q.threshold \in Int
        /\ \A i \in DOMAIN rows : rows[i].time \in Int /\ rows[i].value \in Int
    BY DEF ListingQuestion
  <1>2. Taken(q) = {Of(rows[i]) : i \in {i \in DOMAIN rows : Exceeds(q, rows[i])}}
    BY DEF Taken
  <1>3. Wanted(q) = {n \in 0 .. Len(q.frames) : \E s \in ToSet(rows) : Over(s) /\ CurrentFrame(q, n, s.time)}
    BY DEF Wanted
  <1>4. Due(q) = Wanted(q)
    BY DEF Due
  <1>5. \A i \in DOMAIN rows : Exceeds(q, rows[i]) <=> Over(rows[i])
    BY <1>1 DEF Exceeds
  <1>6. \A i \in DOMAIN rows :
          /\ Of(rows[i]) \in 0 .. Len(q.frames)
          /\ \A n \in 0 .. Len(q.frames) : CurrentFrame(q, n, rows[i].time) <=> n = Of(rows[i])
    BY <1>1, FrameIsCurrent
  <1>7. ToSet(rows) = {rows[i] : i \in DOMAIN rows}
    BY DEF ToSet
  <1> HIDE DEF q, rows, Over, Of
  <1>8. ASSUME NEW n PROVE n \in Taken(q) <=> n \in Wanted(q)
    BY <1>2, <1>3, <1>5, <1>6, <1>7
  <1>9. QED
    BY <1>4, <1>8 DEF AsAsked, q

\* An instance of a region is one of the rows of that name, with an end in the
\* capture.
LEMMA InstancesOfRegion ==
  ASSUME NEW q, NumberedGroups(q.groups),
         \A g \in DOMAIN q.groups : \A r \in ToSet(q.groups[g].rows) : {"start", "end"} \subseteq DOMAIN r
  PROVE  LET regions == {r \in UNION {ToSet(q.groups[g].rows) : g \in DOMAIN q.groups} : r.name = q.region}
             EndOf(r) == IF r.end = Open THEN q.duration ELSE Lesser(r.end, q.duration)
             Stands(inst, r) == inst.id = r.id /\ inst.start = r.start /\ inst.end = EndOf(r)
         IN  /\ \A inst \in ToSet(Instances(q)) : \E r \in regions : Stands(inst, r)
             /\ \A r \in regions : \E inst \in ToSet(Instances(q)) : Stands(inst, r)
  <1> DEFINE groups == q.groups
             regions == {r \in UNION {ToSet(groups[g].rows) : g \in DOMAIN groups} : r.name = q.region}
             EndOf(r) == IF r.end = Open THEN q.duration ELSE Lesser(r.end, q.duration)
             Stands(inst, r) == inst.id = r.id /\ inst.start = r.start /\ inst.end = EndOf(r)
             every == {g \in DOMAIN groups : TRUE}
             rows == RowsOfGroups(groups, every)
             named == {i \in DOMAIN rows : rows[i].name = q.region}
             found == RowsAt(rows, named)
             instances == Instances(q)
  <1>1. instances = [i \in DOMAIN found |-> [found[i] EXCEPT !.end = EndOf(found[i])]]
    BY DEF Instances, RowsOf, RowsOfGroups, Selected
  <1>2. /\ Numbered(rows)
        /\ \A n \in DOMAIN rows : \E g \in DOMAIN groups : \E j \in DOMAIN groups[g].rows :
             rows[n] = groups[g].rows[j]
        /\ \A g \in DOMAIN groups : \A j \in DOMAIN groups[g].rows : \E n \in DOMAIN rows :
             rows[n] = groups[g].rows[j]
    <2>1. every \in SUBSET DOMAIN groups /\ every = DOMAIN groups
      OBVIOUS
    <2> HIDE DEF every
    <2>2. QED
      BY <2>1, GroupRows
  <1>3. \A g \in DOMAIN groups : \A j \in DOMAIN groups[g].rows :
          /\ groups[g].rows[j] \in ToSet(groups[g].rows)
          /\ {"start", "end"} \subseteq DOMAIN groups[g].rows[j]
    BY DEF ToSet
  <1> HIDE DEF rows, EndOf, instances
  <1>4. /\ Numbered(found)
        /\ \A n \in DOMAIN found : \E p \in named : found[n] = rows[p]
        /\ \A p \in named : \E n \in DOMAIN found : found[n] = rows[p]
    <2>1. named \in SUBSET DOMAIN rows
      OBVIOUS
    <2> HIDE DEF named
    <2>2. QED
      BY <1>2, <2>1, KeptNumbered
  <1> HIDE DEF found
  <1>5. ASSUME NEW i \in DOMAIN found
        PROVE  found[i] \in regions /\ Stands(instances[i], found[i]) /\ instances[i] \in ToSet(instances)
    <2>1. PICK p \in DOMAIN rows : found[i] = rows[p] /\ rows[p].name = q.region
      BY <1>4
    <2>2. PICK g \in DOMAIN groups : \E j \in DOMAIN groups[g].rows : rows[p] = groups[g].rows[j]
      BY <1>2
    <2>3. PICK j \in DOMAIN groups[g].rows : rows[p] = groups[g].rows[j]
      BY <2>2
    <2>4. "id" \in DOMAIN found[i]
      BY <1>4 DEF Numbered
    <2>5. {"start", "end"} \subseteq DOMAIN found[i]
      BY <1>3, <2>1, <2>3
    <2>6. Stands(instances[i], found[i])
      BY <1>1, <2>4, <2>5
    <2>7. found[i] \in regions
      BY <1>3, <2>1, <2>3
    <2>8. instances[i] \in ToSet(instances)
      BY <1>1 DEF ToSet
    <2>9. QED
      BY <2>6, <2>7, <2>8
  <1>6. ASSUME NEW inst \in ToSet(instances) PROVE \E r \in regions : Stands(inst, r)
    <2>1. PICK i \in DOMAIN found : inst = instances[i]
      BY <1>1 DEF ToSet
    <2>2. QED
      BY <1>5, <2>1
  <1>7. ASSUME NEW r \in regions PROVE \E inst \in ToSet(instances) : Stands(inst, r)
    <2>1. PICK g \in DOMAIN groups : r \in ToSet(groups[g].rows)
      OBVIOUS
    <2>2. PICK j \in DOMAIN groups[g].rows : r = groups[g].rows[j]
      BY <2>1 DEF ToSet
    <2>3. PICK n \in DOMAIN rows : rows[n] = r
      BY <1>2, <2>2
    <2>4. n \in named
      BY <2>3
    <2>5. PICK i \in DOMAIN found : found[i] = r
      BY <1>4, <2>3, <2>4
    <2>6. QED
      BY <1>5, <2>5
  <1>8. QED
    BY <1>6, <1>7 DEF EndOf, instances

\* What overlaps an instance ran inside it, on a CPU thread's timeline or on
\* another; what starts inside it overlaps it.
LEMMA InsideAsAsked ==
  ASSUME mode = "inside", ListingQuestion(mode, question)
  PROVE  AsAsked
  <1> DEFINE q == question
             regions == {r \in UNION {ToSet(q.groups[g].rows) : g \in DOMAIN q.groups} : r.name = q.region}
             EndOf(r) == IF r.end = Open THEN q.duration ELSE Lesser(r.end, q.duration)
             Stands(inst, r) == inst.id = r.id /\ inst.start = r.start /\ inst.end = EndOf(r)
             events(timelines) == UNION {ToSet(q.timelines[t]) : t \in timelines}
             instances == ToSet(Instances(q))
             Pass(e) == q.prefix => e.prefixed
  <1>1. /\ NumberedGroups(q.groups) /\ q.cpu \subseteq DOMAIN q.timelines /\ q.duration \in Nat
        /\ \A g \in DOMAIN q.groups : \A r \in ToSet(q.groups[g].rows) :
             {"start", "end"} \subseteq DOMAIN r /\ r.start \in Int /\ (r.end = Open \/ r.end \in Int)
        /\ \A t \in DOMAIN q.timelines : \A e \in ToSet(q.timelines[t]) :
             IsSpan(e) /\ e.start <= q.duration
    BY DEF ListingQuestion
  <1>2. /\ \A inst \in instances : \E r \in regions : Stands(inst, r)
        /\ \A r \in regions : \E inst \in instances : Stands(inst, r)
    BY <1>1, InstancesOfRegion
  <1>3. Taken(q) = {p \in {r.id : r \in instances} \X
                          UNION {{e.id : e \in ToSet(q.timelines[t])} : t \in DOMAIN q.timelines} :
                      \E r \in instances, t \in DOMAIN q.timelines :
                        \E e \in ToSet(q.timelines[t]) :
                          /\ p = <<r.id, e.id>> /\ Meets(e, r)
                          /\ Pass(e)}
    BY DEF Taken
  <1>4. /\ Wanted(q) = {<<p[1].id, p[2].id>> :
                          p \in {p \in regions \X events(q.cpu) :
                                   RanInside(p[1], p[2]) /\ Pass(p[2])}}
        /\ Unasked(q) = {<<p[1].id, p[2].id>> :
                           p \in {p \in regions \X events(DOMAIN q.timelines \ q.cpu) :
                                    RanInside(p[1], p[2]) /\ Pass(p[2])}}
    BY DEF Wanted, Unasked, InsidePairs
  <1>5. Due(q) = {<<p[1].id, p[2].id>> :
                    p \in {p \in regions \X events(q.cpu) : StartsInside(p[1], p[2]) /\ Pass(p[2])}}
    BY DEF Due, InsidePairs
  <1>6. ASSUME NEW r \in regions, NEW t \in DOMAIN q.timelines, NEW e \in ToSet(q.timelines[t]),
               NEW inst, Stands(inst, r)
        PROVE  /\ Meets(e, inst) => RanInside(r, e)
               /\ StartsInside(r, e) => Meets(e, inst)
    <2>1. r.start \in Int /\ (r.end = Open \/ r.end \in Int)
      BY <1>1
    <2>2. e.start \in Int /\ e.end \in Int /\ e.start <= e.end /\ e.start <= q.duration
      BY <1>1 DEF IsSpan
    <2>3. inst.start = r.start /\ inst.end = IF r.end = Open THEN q.duration ELSE Lesser(r.end, q.duration)
      BY <1>6
    <2> HIDE DEF regions, Stands, q
    <2>4. QED
      BY <1>1, <2>1, <2>2, <2>3 DEF Meets, RanInside, StartsInside, Lesser
  <1> HIDE DEF regions, Stands, instances, Pass, q
  <1>7. ASSUME NEW x \in Taken(q) PROVE x \in Wanted(q) \cup Unasked(q)
    <2>1. PICK inst \in instances, t \in DOMAIN q.timelines :
            \E e \in ToSet(q.timelines[t]) : x = <<inst.id, e.id>> /\ Meets(e, inst) /\ Pass(e)
      BY <1>3
    <2>2. PICK e \in ToSet(q.timelines[t]) : x = <<inst.id, e.id>> /\ Meets(e, inst) /\ Pass(e)
      BY <2>1
    <2>3. PICK r \in regions : Stands(inst, r)
      BY <1>2
    <2>4. RanInside(r, e) /\ inst.id = r.id
      BY <1>6, <2>2, <2>3 DEF Stands
    <2>5. e \in events(q.cpu) \/ e \in events(DOMAIN q.timelines \ q.cpu)
      OBVIOUS
    <2> DEFINE pairs(timelines) == {p \in regions \X events(timelines) : RanInside(p[1], p[2]) /\ Pass(p[2])}
    <2>6. <<r, e>> \in pairs(q.cpu) \/ <<r, e>> \in pairs(DOMAIN q.timelines \ q.cpu)
      BY <2>2, <2>4, <2>5
    <2>7. x = <<r.id, e.id>>
      BY <2>2, <2>4
    <2>8. CASE <<r, e>> \in pairs(q.cpu)
      BY <1>4, <2>7, <2>8
    <2>9. CASE <<r, e>> \in pairs(DOMAIN q.timelines \ q.cpu)
      BY <1>4, <2>7, <2>9
    <2>10. QED
      BY <2>6, <2>8, <2>9
  <1>8. ASSUME NEW x \in Due(q) PROVE x \in Taken(q)
    <2>1. PICK p \in regions \X events(q.cpu) :
            StartsInside(p[1], p[2]) /\ Pass(p[2]) /\ x = <<p[1].id, p[2].id>>
      BY <1>5
    <2>2. PICK r \in regions, e \in events(q.cpu) : p = <<r, e>>
      OBVIOUS
    <2>3. PICK t \in DOMAIN q.timelines : e \in ToSet(q.timelines[t])
      BY <1>1
    <2>4. PICK inst \in instances : Stands(inst, r)
      BY <1>2
    <2>5. Meets(e, inst) /\ Pass(e) /\ x = <<inst.id, e.id>>
      BY <1>6, <2>1, <2>2, <2>3, <2>4 DEF Stands
    <2>6. x \in {r0.id : r0 \in instances} \X
                UNION {{e0.id : e0 \in ToSet(q.timelines[t0])} : t0 \in DOMAIN q.timelines}
      BY <2>3, <2>4, <2>5
    <2>7. QED
      BY <1>3, <2>3, <2>4, <2>5, <2>6
  <1>9. QED
    BY <1>7, <1>8 DEF AsAsked, q

\* The number at a rank is the least that as many numbers do not exceed.
LEMMA RankOfSorted ==
  ASSUME NEW values, NEW n \in Nat, values \in [1 .. n -> Int], Len(values) = n
  PROVE  \A k \in 1 .. n :
           /\ Sorted(values)[k] \in Int
           /\ \A d \in Int : Sorted(values)[k] <= d <=> k <= Cardinality({i \in 1 .. n : values[i] <= d})
  <1> DEFINE P == 1 .. n
             below == [i \in P |-> {j \in P : values[j] < values[i] \/ (values[j] = values[i] /\ j < i)}]
             upTo(d) == {i \in P : values[i] <= d}
  <1>1. DOMAIN values = P /\ \A i \in P : values[i] \in Int
    OBVIOUS
  <1>2. IsFiniteSet(P) /\ Cardinality(P) = n
    BY FS_Interval
  <1>3. Sorted(values) = [k \in P |-> values[Nth(below, k)]]
    BY <1>1 DEF Sorted
  <1>4. \A i, j \in P : j \in below[i] <=> values[j] < values[i] \/ (values[j] = values[i] /\ j < i)
    OBVIOUS
  <1>5. below \in [P -> SUBSET P]
    OBVIOUS
  <1>6. P \subseteq Int
    OBVIOUS
  <1> HIDE DEF below, P
  <1>7. Orders(below, P)
    <2>1. \A p \in P : p \notin below[p]
      BY <1>1, <1>4, <1>6
    <2>2. ASSUME NEW p \in P, NEW r \in P, r \in below[p], NEW j \in below[r] PROVE j \in below[p]
      <3>1. j \in P
        BY <1>5
      <3>2. QED
        BY <1>1, <1>4, <1>6, <2>2, <3>1
    <2>3. \A p, r \in P : p = r \/ p \in below[r] \/ r \in below[p]
      BY <1>1, <1>4, <1>6
    <2>4. QED
      BY <1>2, <1>5, <2>1, <2>2, <2>3 DEF Orders
  <1>8. ASSUME NEW k \in 1 .. n, NEW d \in Int
        PROVE  Sorted(values)[k] \in Int /\ (Sorted(values)[k] <= d <=> k <= Cardinality(upTo(d)))
    <2>1. \E p \in P : Cardinality(below[p]) = k - 1
      <3>1. k - 1 \in 0 .. Cardinality(P) - 1
        BY <1>2
      <3>2. QED
        BY <1>7, <3>1, Ranks
    <2>2. PICK p \in P : p = Nth(below, k) /\ Cardinality(below[p]) = k - 1
      <3>1. DOMAIN below = P
        BY <1>5
      <3>2. QED
        BY <2>1, <3>1 DEF Nth
    <2>3. Sorted(values)[k] = values[p] /\ values[p] \in Int
      <3>1. k \in P
        BY DEF P
      <3>2. QED
        BY <1>1, <1>3, <2>2, <3>1
    <2>4. /\ IsFiniteSet(upTo(d)) /\ Cardinality(upTo(d)) \in Nat
          /\ below[p] \subseteq P /\ IsFiniteSet(below[p])
      <3>1. upTo(d) \subseteq P /\ below[p] \subseteq P
        BY <1>5
      <3> HIDE DEF upTo
      <3>2. QED
        BY <1>2, <3>1, FS_Subset, FS_CardinalityType
    <2>5. ASSUME values[p] <= d PROVE k <= Cardinality(upTo(d))
      <3> DEFINE first == below[p] \cup {p}
      <3>1. p \notin below[p]
        BY <1>7 DEF Orders
      <3>2. IsFiniteSet(first) /\ Cardinality(first) = k
        <4>1. IsFiniteSet(first) /\ Cardinality(first) = Cardinality(below[p]) + 1
          BY <2>4, <3>1, FS_AddElement
        <4>2. QED
          BY <2>2, <4>1
      <3>3. first \subseteq upTo(d)
        <4>1. ASSUME NEW j \in below[p] PROVE j \in upTo(d)
          <5>1. j \in P /\ values[j] <= values[p]
            BY <1>1, <1>4, <2>4
          <5>2. QED
            BY <1>1, <2>5, <5>1
        <4>2. p \in upTo(d)
          BY <2>5
        <4>3. QED
          BY <4>1, <4>2
      <3> HIDE DEF first, upTo
      <3>4. QED
        BY <2>4, <3>2, <3>3, FS_Subset
    <2>6. ASSUME values[p] > d PROVE ~(k <= Cardinality(upTo(d)))
      <3>1. upTo(d) \subseteq below[p]
        <4>1. ASSUME NEW j \in upTo(d) PROVE j \in below[p]
          <5>1. values[j] < values[p]
            BY <1>1, <2>6
          <5>2. QED
            BY <1>4, <5>1
        <4>2. QED
          BY <4>1
      <3> HIDE DEF upTo
      <3>2. Cardinality(upTo(d)) <= k - 1
        BY <2>2, <2>4, <3>1, FS_Subset
      <3>3. QED
        BY <2>4, <3>2
    <2> HIDE DEF upTo
    <2>7. QED
      BY <2>3, <2>5, <2>6
  <1>9. QED
    BY <1>8 DEF P

\* A number is at least the quantile if the share of the others that it is no less
\* than is at least the quantile's.
LEMMA QuantileOfShare ==
  ASSUME NEW values, NEW n \in Nat, values \in [1 .. n -> Int], Len(values) = n,
         NEW p, p.num \in Int, p.den \in Int, 0 < p.num, p.num < p.den, NEW i \in 1 .. n
  PROVE  values[i] * p.den >= GetPercentile(values, p)
           <=> p.den * Cardinality({j \in 1 .. n : values[j] <= values[i]} \ {i}) >= p.num * (n - 1)
  <1> DEFINE sorted == Sorted(values)
             upTo(d) == {j \in 1 .. n : values[j] <= d}
             d == values[i]
             c == Cardinality(upTo(d))
             den == p.den
             rank == p.num * (n - 1)
             lo == rank \div den
             frac == rank % den
             hi == Lesser(lo + 1, n - 1)
             P == GetPercentile(values, p)
  <1>1. n >= 1 /\ d \in Int /\ den \in Int /\ den > 0
    OBVIOUS
  <1>2. \A e \in Int : IsFiniteSet(upTo(e)) /\ Cardinality(upTo(e)) \in 0 .. n
    <2> SUFFICES ASSUME NEW e \in Int PROVE IsFiniteSet(upTo(e)) /\ Cardinality(upTo(e)) \in 0 .. n
      OBVIOUS
    <2>1. upTo(e) \subseteq 1 .. n
      OBVIOUS
    <2>2. IsFiniteSet(1 .. n) /\ Cardinality(1 .. n) = n
      BY FS_Interval
    <2> HIDE DEF upTo
    <2>3. IsFiniteSet(upTo(e)) /\ Cardinality(upTo(e)) <= n
      BY <2>1, <2>2, FS_Subset
    <2>4. QED
      BY <2>3, FS_CardinalityType
  <1>3. \A k \in 1 .. n : /\ sorted[k] \in Int
                          /\ \A e \in Int : sorted[k] <= e <=> k <= Cardinality(upTo(e))
    BY RankOfSorted
  <1>4. Cardinality(upTo(d) \ {i}) = c - 1
    <2>1. i \in upTo(d)
      OBVIOUS
    <2> HIDE DEF upTo
    <2>2. QED
      BY <1>1, <1>2, <2>1, FS_RemoveElement
  <1>5. c \in 1 .. n /\ Cardinality(upTo(d - 1)) \in 0 .. c - 1
    <2>1. upTo(d - 1) \subseteq upTo(d) \ {i}
      BY <1>1
    <2>2. IsFiniteSet(upTo(d) \ {i})
      <3>1. upTo(d) \ {i} \subseteq upTo(d)
        OBVIOUS
      <3>2. QED
        BY <1>1, <1>2, <3>1, FS_Subset
    <2> HIDE DEF upTo
    <2>3. Cardinality(upTo(d - 1)) <= c - 1
      BY <1>4, <2>1, <2>2, FS_Subset
    <2>4. Cardinality(upTo(d - 1)) \in 0 .. n /\ c \in 0 .. n
      <3>1. d - 1 \in Int
        BY <1>1
      <3> HIDE DEF d
      <3>2. QED
        BY <1>1, <1>2, <3>1
    <2>5. QED
      BY <2>3, <2>4
  <1>6. P = (sorted[lo + 1] * (den - frac)) + (sorted[hi + 1] * frac)
    <2>1. values # <<>>
      BY <1>1
    <2>2. Len(sorted) = n
      <3>1. sorted = [k \in 1 .. n |-> sorted[k]]
        BY DEF Sorted
      <3>2. sorted \in [1 .. n -> {sorted[k] : k \in 1 .. n}]
        BY <3>1
      <3> HIDE DEF sorted
      <3>3. QED
        BY <3>2, SeqFromFunction
    <2>3. P = PercentileSorted(sorted, p)
      BY <2>1 DEF GetPercentile
    <2> HIDE DEF sorted, P
    <2>4. QED
      BY <2>2, <2>3 DEF PercentileSorted
  <1>7. /\ rank \in Int /\ 0 <= rank /\ rank <= den * (n - 1)
        /\ n > 1 => rank < den * (n - 1)
    <2> DEFINE num == p.num
               m == n - 1
    <2>1. num \in Int /\ 0 < num /\ num < den /\ m \in Int /\ m >= 0
      BY <1>1
    <2> HIDE DEF num, m, den
    <2>2. num * m \in Int /\ 0 <= num * m /\ num * m <= den * m /\ (m > 0 => num * m < den * m)
      BY <1>1, <2>1
    <2>3. rank = num * m /\ (n > 1 => m > 0)
      BY <1>1 DEF num, m
    <2> HIDE DEF rank
    <2>4. QED
      BY <2>2, <2>3 DEF m
  <1> HIDE DEF rank, den
  <1>8. lo \in Int /\ frac \in Int /\ 0 <= frac /\ frac < den /\ rank = (den * lo) + frac
    BY <1>1, <1>7
  <1> HIDE DEF lo, frac, c, upTo, sorted, P, d
  <1>9. /\ lo >= 0 /\ lo <= n - 1
        /\ frac > 0 => lo < n - 1
    <2>1. lo >= 0
      <3>1. lo <= -1 => den * lo <= -den
        BY <1>1, <1>8
      <3>2. QED
        BY <1>1, <1>7, <1>8, <3>1
    <2>2. lo <= n - 1
      <3>1. lo >= n => den * lo >= den * n
        BY <1>1, <1>8
      <3>2. den * n = (den * (n - 1)) + den
        BY <1>1
      <3>3. den * lo \in Int /\ den * n \in Int /\ den * (n - 1) \in Int
        BY <1>1, <1>8
      <3>4. QED
        BY <1>1, <1>7, <1>8, <3>1, <3>2, <3>3
    <2>3. frac > 0 => lo # n - 1
      <3>1. den * (n - 1) \in Int
        BY <1>1
      <3>2. QED
        BY <1>1, <1>7, <1>8, <3>1
    <2>4. QED
      BY <1>8, <2>1, <2>2, <2>3
  <1>10. den * (c - 1) >= rank <=> IF frac = 0 THEN c >= lo + 1 ELSE c >= lo + 2
    <2> DEFINE x == c - 1
    <2>1. x \in Int
      BY <1>5
    <2> HIDE DEF x
    <2>2. frac = 0 => (den * x >= (den * lo) + frac <=> x >= lo)
      BY <1>1, <1>8, <2>1
    <2>3. frac > 0 => (den * x >= (den * lo) + frac <=> x > lo)
      BY <1>1, <1>8, <2>1
    <2>4. /\ x >= lo <=> c >= lo + 1
          /\ x > lo <=> c >= lo + 2
      BY <1>5, <1>8 DEF x
    <2>5. den * (c - 1) >= rank <=> den * x >= (den * lo) + frac
      BY <1>8 DEF x
    <2>6. QED
      BY <1>8, <2>2, <2>3, <2>4, <2>5
  <1>11. CASE frac = 0
    <2>1. lo + 1 \in 1 .. n
      BY <1>8, <1>9
    <2>2. sorted[lo + 1] \in Int /\ (sorted[lo + 1] <= d <=> lo + 1 <= c)
      BY <1>1, <1>3, <2>1 DEF c
    <2>3. hi + 1 \in 1 .. n /\ sorted[hi + 1] \in Int
      <3>1. hi + 1 \in 1 .. n
        BY <1>1, <1>8, <1>9 DEF Lesser
      <3>2. QED
        BY <1>3, <3>1
    <2>4. P = sorted[lo + 1] * den
      <3>1. sorted[hi + 1] * frac = 0 /\ den - frac = den
        BY <1>1, <1>11, <2>3
      <3>2. QED
        BY <1>1, <1>6, <2>2, <3>1
    <2>5. d * den >= P <=> sorted[lo + 1] <= d
      BY <1>1, <2>2, <2>4
    <2>6. QED
      BY <1>4, <1>5, <1>8, <1>10, <1>11, <2>2, <2>5 DEF P, d, den, rank, upTo
  <1>12. CASE frac # 0
    <2>1. lo + 1 \in 1 .. n /\ lo + 2 \in 1 .. n /\ hi + 1 = lo + 2
      BY <1>8, <1>9, <1>12 DEF Lesser
    <2>2. /\ sorted[lo + 1] \in Int /\ (sorted[lo + 1] <= d <=> lo + 1 <= c)
          /\ sorted[lo + 2] \in Int /\ (sorted[lo + 2] <= d <=> lo + 2 <= c)
          /\ sorted[lo + 1] <= d - 1 => lo + 1 <= c - 1
      <3>1. d - 1 \in Int /\ (sorted[lo + 1] <= d - 1 <=> lo + 1 <= Cardinality(upTo(d - 1)))
        BY <1>1, <1>3, <2>1
      <3>2. QED
        BY <1>1, <1>3, <1>5, <1>8, <2>1, <3>1 DEF c
    <2> DEFINE a == sorted[lo + 1]
               b == sorted[lo + 2]
               rest == den - frac
    <2>3. /\ a \in Int /\ b \in Int /\ rest \in Int /\ rest > 0 /\ frac > 0 /\ den = rest + frac
          /\ P = (a * rest) + (b * frac)
      BY <1>1, <1>6, <1>8, <1>12, <2>1, <2>2
    <2>4. /\ c >= lo + 2 => a <= d /\ b <= d
          /\ ~(c >= lo + 2) => a >= d /\ b > d
      <3>1. /\ c >= lo + 2 => a <= d /\ b <= d
            /\ ~(c >= lo + 2) => b > d
        BY <1>1, <1>5, <1>8, <2>2
      <3>2. ~(c >= lo + 2) => ~(a <= d - 1)
        BY <1>1, <1>5, <1>8, <2>2
      <3>3. QED
        BY <1>1, <2>3, <3>1, <3>2
    <2> HIDE DEF a, b, rest
    <2>5. d * den >= P <=> c >= lo + 2
      <3>1. d * den = (d * rest) + (d * frac)
        BY <1>1, <1>8, <2>3
      <3>2. /\ a <= d => a * rest <= d * rest
            /\ a >= d => a * rest >= d * rest
        BY <1>1, <2>3
      <3>3. /\ b <= d => b * frac <= d * frac
            /\ b > d => b * frac > d * frac
        BY <1>1, <1>8, <2>3
      <3>4. a * rest \in Int /\ d * rest \in Int /\ b * frac \in Int /\ d * frac \in Int
        BY <1>1, <1>8, <2>3
      <3>5. QED
        BY <2>3, <2>4, <3>1, <3>2, <3>3, <3>4
    <2>6. QED
      BY <1>4, <1>10, <1>12, <2>5 DEF P, d, den, rank, upTo
  <1>13. QED
    BY <1>11, <1>12

LEMMA SlowLogsAsAsked ==
  ASSUME mode = "slow_logs", ListingQuestion(mode, question),
         question.quantile.num > 0, question.quantile.num < question.quantile.den
  PROVE  AsAsked
  <1> DEFINE q == question
             frames == question.frames
             rows == question.rows
             n == Len(frames)
             took == [i \in DOMAIN frames |-> frames[i].end - frames[i].start]
             Near(f, l) == l.time >= f.start - q.window /\ l.time <= f.end + q.window
  <1>1. /\ FramesInOrder(q) /\ q.quantile.num \in Int /\ q.quantile.den \in Int
    BY DEF ListingQuestion
  <1>2. /\ n \in Nat /\ DOMAIN frames = 1 .. n
        /\ \A i \in 1 .. n : frames[i].start \in Int /\ frames[i].end \in Int
    BY <1>1, LenProperties DEF FramesInOrder, Numbered, IsSpan
  <1>3. took \in [1 .. n -> Int] /\ Len(took) = n
    <2>1. took \in [1 .. n -> Int]
      BY <1>2
    <2> HIDE DEF took, n
    <2>2. QED
      BY <1>2, <2>1, SeqFromFunction
  <1>4. ASSUME NEW i \in DOMAIN frames PROVE IsSlow(q, frames[i]) <=> PastThreshold(q, i)
    <2>1. IsSlow(q, frames[i]) <=> took[i] * q.quantile.den >= GetPercentile(took, q.quantile)
      BY DEF IsSlow
    <2>2. PastThreshold(q, i)
            <=> q.quantile.den * Cardinality({j \in DOMAIN frames : took[j] <= took[i]} \ {i})
                  >= q.quantile.num * (n - 1)
      <3>1. {j \in DOMAIN frames : frames[j].end - frames[j].start <= frames[i].end - frames[i].start}
              = {j \in DOMAIN frames : took[j] <= took[i]}
        OBVIOUS
      <3>2. QED
        BY <3>1 DEF PastThreshold
    <2> HIDE DEF took, n, frames
    <2>3. took[i] * q.quantile.den >= GetPercentile(took, q.quantile)
            <=> q.quantile.den * Cardinality({j \in 1 .. n : took[j] <= took[i]} \ {i})
                  >= q.quantile.num * (n - 1)
      BY <1>1, <1>2, <1>3, QuantileOfShare
    <2>4. QED
      BY <1>2, <2>1, <2>2, <2>3
  <1>5. Taken(q) = UNION {{<<f.id, rows[i].id>> : i \in {i \in DOMAIN rows : Near(f, rows[i])}} :
                          f \in {f \in ToSet(frames) : IsSlow(q, f)}}
    BY DEF Taken
  <1>6. Wanted(q) = UNION {{<<frames[i].id, l.id>> : l \in {l \in ToSet(rows) : Near(frames[i], l)}} :
                           i \in {i \in DOMAIN frames : PastThreshold(q, i)}}
    BY DEF Wanted, AroundPairs
  <1>7. Due(q) = Wanted(q)
    BY DEF Due
  <1>8. /\ ToSet(frames) = {frames[i] : i \in DOMAIN frames}
        /\ ToSet(rows) = {rows[i] : i \in DOMAIN rows}
    BY DEF ToSet
  <1> HIDE DEF Near, frames, rows, q
  <1>9. ASSUME NEW x \in Taken(q) PROVE x \in Wanted(q)
    <2>1. PICK i \in DOMAIN frames : /\ IsSlow(q, frames[i])
                                     /\ x \in {<<frames[i].id, rows[j].id>> :
                                                 j \in {j \in DOMAIN rows : Near(frames[i], rows[j])}}
      BY <1>5, <1>8
    <2>2. PICK j \in DOMAIN rows : Near(frames[i], rows[j]) /\ x = <<frames[i].id, rows[j].id>>
      BY <2>1
    <2>3. PastThreshold(q, i) /\ rows[j] \in ToSet(rows)
      BY <1>4, <1>8, <2>1
    <2>4. QED
      BY <1>6, <2>2, <2>3
  <1>10. ASSUME NEW x \in Wanted(q) PROVE x \in Taken(q)
    <2>1. PICK i \in DOMAIN frames : /\ PastThreshold(q, i)
                                     /\ x \in {<<frames[i].id, l.id>> :
                                                 l \in {l \in ToSet(rows) : Near(frames[i], l)}}
      BY <1>6
    <2>2. PICK j \in DOMAIN rows : Near(frames[i], rows[j]) /\ x = <<frames[i].id, rows[j].id>>
      BY <1>8, <2>1
    <2>3. frames[i] \in ToSet(frames) /\ IsSlow(q, frames[i])
      BY <1>4, <1>8, <2>1
    <2>4. QED
      BY <1>5, <2>2, <2>3
  <1>11. QED
    BY <1>7, <1>9, <1>10 DEF AsAsked, q

\* Whatever is listed, it is what was asked for; a quantile is one.
LEMMA ListingAsAsked ==
  ASSUME mode \in AllListings, ListingQuestion(mode, question),
         mode = "slow_logs" => question.quantile.num > 0 /\ question.quantile.num < question.quantile.den
  PROVE  AsAsked
  <1>1. mode \in {"logs", "bookmarks", "regions", "fences", "objects", "tasks", "assets",
                  "packets", "crossings", "inside", "slow_logs"}
    BY DEF AllListings, InTraceOrder, PlainListings
  <1>2. QED
    BY <1>1, LogsAsAsked, GroupsAsAsked, FramesAsAsked, PacketsAsAsked, CrossingsAsAsked,
       InsideAsAsked, SlowLogsAsAsked

-----------------------------------------------------------------------------
(* Frame ranges: frames follow each other, so a window over several of     *)
(* them is met where one of them is.                                       *)
\* Frames none of which starts before the end of the one before it never start before
\* the end of an earlier one: the first that did would follow one that ends later.
LEMMA FramesFollow ==
  ASSUME NEW frames, Numbered(frames), \A i \in DOMAIN frames : IsSpan(frames[i]),
         \A i \in DOMAIN frames : i + 1 \in DOMAIN frames => frames[i].end <= frames[i + 1].start
  PROVE  \A i, j \in DOMAIN frames : i < j => frames[i].end <= frames[j].start
  <1>1. DOMAIN frames = 1 .. Len(frames) /\ Len(frames) \in Nat
    BY LenProperties DEF Numbered
  <1> SUFFICES ASSUME NEW i \in DOMAIN frames, NEW k \in DOMAIN frames, i < k,
                      ~(frames[i].end <= frames[k].start)
               PROVE  FALSE
    OBVIOUS
  <1> DEFINE T == {j \in DOMAIN frames : i < j /\ ~(frames[i].end <= frames[j].start)}
  <1>2. T \in SUBSET Nat /\ k \in T
    BY <1>1
  <1>3. IsFiniteSet(T)
    <2>1. PICK n \in Nat : DOMAIN frames = 1 .. n
      BY <1>1
    <2>2. IsFiniteSet(DOMAIN frames) /\ T \subseteq DOMAIN frames
      BY <2>1, FS_Interval
    <2>3. QED
      BY <2>2, FS_Subset
  <1>4. PICK j \in T : \A y \in T : j <= y
    BY <1>2, <1>3, Least
  <1>5. j \in DOMAIN frames /\ i < j /\ ~(frames[i].end <= frames[j].start)
    OBVIOUS
  <1>6. PICK p \in DOMAIN frames : p = j - 1 /\ p + 1 = j
    BY <1>1, <1>5
  <1>7. frames[p].end <= frames[j].start
    BY <1>5, <1>6
  <1>8. IsSpan(frames[i]) /\ IsSpan(frames[p]) /\ IsSpan(frames[j])
    BY <1>5
  <1>9. CASE p = i
    BY <1>5, <1>7, <1>8, <1>9 DEF IsSpan
  <1>10. CASE i < p
    <2>1. p \notin T
      BY <1>1, <1>4, <1>5, <1>6
    <2>2. frames[i].end <= frames[p].start
      BY <1>10, <2>1
    <2>3. QED
      BY <1>5, <1>7, <1>8, <2>2 DEF IsSpan
  <1>11. QED
    BY <1>1, <1>5, <1>6, <1>9, <1>10

\* A span meets the window of some frames when it meets one of them or the time
\* between two: the first of them that does not end before the span starts, or the
\* time before it.
LEMMA WindowIsFrames ==
  ASSUME NEW frames, Numbered(frames), \A i \in DOMAIN frames : IsSpan(frames[i]),
         \A i \in DOMAIN frames : i + 1 \in DOMAIN frames => frames[i].end <= frames[i + 1].start,
         NEW a \in Nat, NEW b \in Nat, a < b, b <= Len(frames),
         NEW r, IsSpan(r)
  PROVE  (r.start <= frames[b].end /\ r.end >= frames[a + 1].start)
           <=> \/ \E i \in a .. b - 1 : Meets(r, frames[i + 1])
               \/ \E i \in a + 1 .. b - 1 :
                    Meets(r, [start |-> frames[i].end, end |-> frames[i + 1].start])
  <1>1. DOMAIN frames = 1 .. Len(frames) /\ Len(frames) \in Nat
    BY LenProperties DEF Numbered
  <1>2. \A i, j \in DOMAIN frames : i < j => frames[i].end <= frames[j].start
    BY FramesFollow
  <1>3. PICK first \in DOMAIN frames : first = a + 1
    BY <1>1
  <1>4. b \in DOMAIN frames
    BY <1>1
  <1>5. ASSUME NEW k \in DOMAIN frames, first <= k, k <= b
        PROVE  /\ frames[k].start <= frames[b].end /\ frames[k].end <= frames[b].end
               /\ frames[first].start <= frames[k].start /\ frames[first].start <= frames[k].end
    <2>1. IsSpan(frames[k]) /\ IsSpan(frames[b]) /\ IsSpan(frames[first])
      BY <1>4
    <2>2. k = b \/ frames[k].end <= frames[b].start
      BY <1>1, <1>2, <1>4, <1>5
    <2>3. k = first \/ frames[first].end <= frames[k].start
      BY <1>1, <1>2, <1>3, <1>5
    <2>4. QED
      BY <2>1, <2>2, <2>3 DEF IsSpan
  <1>6. ASSUME NEW i \in a .. b - 1, Meets(r, frames[i + 1])
        PROVE  r.start <= frames[b].end /\ r.end >= frames[first].start
    <2>1. PICK k \in DOMAIN frames : k = i + 1 /\ first <= k /\ k <= b
      BY <1>1, <1>3
    <2>2. IsSpan(frames[k]) /\ IsSpan(frames[b]) /\ IsSpan(frames[first])
      BY <1>4
    <2>3. r.start <= frames[k].end /\ r.end >= frames[k].start
      BY <1>6, <2>1 DEF Meets
    <2>4. QED
      BY <1>5, <2>1, <2>2, <2>3 DEF IsSpan
  <1>7. ASSUME NEW i \in a + 1 .. b - 1,
               Meets(r, [start |-> frames[i].end, end |-> frames[i + 1].start])
        PROVE  r.start <= frames[b].end /\ r.end >= frames[first].start
    <2>1. PICK k \in DOMAIN frames : k = i + 1 /\ first <= k /\ k <= b
      BY <1>1, <1>3
    <2>2. i \in DOMAIN frames /\ first <= i /\ i <= b
      BY <1>1, <1>3
    <2>3. IsSpan(frames[i]) /\ IsSpan(frames[k]) /\ IsSpan(frames[b]) /\ IsSpan(frames[first])
      BY <1>4, <2>2
    <2>4. r.start <= frames[k].start /\ r.end >= frames[i].end
      BY <1>7, <2>1 DEF Meets
    <2>5. frames[k].start <= frames[b].end /\ frames[first].start <= frames[i].end
      BY <1>5, <2>1, <2>2
    <2>6. /\ r.start \in Int /\ r.end \in Int
          /\ frames[i].end \in Int /\ frames[k].start \in Int
          /\ frames[b].end \in Int /\ frames[first].start \in Int
      BY <2>3 DEF IsSpan
    <2>7. QED
      BY <2>4, <2>5, <2>6
  <1>8. ASSUME r.start <= frames[b].end, r.end >= frames[first].start
        PROVE  \/ \E i \in a .. b - 1 : Meets(r, frames[i + 1])
               \/ \E i \in a + 1 .. b - 1 :
                    Meets(r, [start |-> frames[i].end, end |-> frames[i + 1].start])
    <2> DEFINE T == {j \in first .. b : r.start <= frames[j].end}
    <2>1. T \in SUBSET Nat /\ b \in T
      BY <1>1, <1>3, <1>8
    <2>2. IsFiniteSet(T)
      <3>1. first \in Int /\ IsFiniteSet(first .. b) /\ T \subseteq first .. b
        BY <1>3, FS_Interval
      <3>2. QED
        BY <3>1, FS_Subset
    <2>3. PICK j \in T : \A y \in T : j <= y
      BY <2>1, <2>2, Least
    <2>4. j \in first .. b /\ j \in DOMAIN frames /\ r.start <= frames[j].end
      BY <1>1, <1>3
    <2>5. IsSpan(frames[j])
      BY <2>4
    <2>6. PICK i \in a .. b - 1 : i + 1 = j
      <3>1. PICK i \in Int : i = j - 1
        BY <1>1, <2>4
      <3>2. i \in a .. b - 1 /\ i + 1 = j
        BY <1>1, <1>3, <2>4, <3>1
      <3>3. QED
        BY <3>2
    <2>7. CASE r.end >= frames[j].start
      BY <2>4, <2>6, <2>7 DEF Meets
    <2>8. CASE ~(r.end >= frames[j].start)
      <3>1. first < j
        BY <1>1, <1>8, <2>4, <2>8
      <3>2. i \in a + 1 .. b - 1 /\ i \in DOMAIN frames /\ i \in first .. b /\ ~(j <= i)
        BY <1>1, <1>3, <2>4, <2>6, <3>1
      <3>3. ~(r.start <= frames[i].end)
        BY <2>3, <3>2
      <3>4. IsSpan(frames[i])
        BY <3>2
      <3>5. r.start <= frames[j].start /\ r.end >= frames[i].end
        BY <2>5, <2>8, <3>3, <3>4 DEF IsSpan
      <3>6. Meets(r, [start |-> frames[i].end, end |-> frames[i + 1].start])
        BY <2>6, <3>5 DEF Meets
      <3>7. QED
        BY <3>2, <3>6
    <2>9. QED
      BY <2>7, <2>8
  <1>9. QED
    BY <1>3, <1>6, <1>7, <1>8

\* What every view with a frame range is asked.
Ranged(q) ==
  /\ q.first \in Int /\ q.past \in Int /\ Numbered(q.frames)
  /\ \A i \in DOMAIN q.frames : IsSpan(q.frames[i])
  /\ \A i \in DOMAIN q.frames : i + 1 \in DOMAIN q.frames => q.frames[i].end <= q.frames[i + 1].start

\* A span meets the window of a range in the trace when it meets one of its frames
\* or the time between two.
LEMMA RangeMeets ==
  ASSUME NEW q, Ranged(q), RangeInTrace(q), NEW r, IsSpan(r)
  PROVE  (r.start <= ResolveWindow(q).end /\ r.end >= ResolveWindow(q).start)
           <=> \E f \in AskedFrames(q) \cup Between(q) : Meets(r, f)
  <1> DEFINE frames == q.frames
  <1>1. DOMAIN frames = 1 .. Len(frames) /\ Len(frames) \in Nat
    BY LenProperties DEF Numbered, Ranged
  <1>2. q.first \in Int /\ q.past \in Int /\ 0 <= q.first /\ q.first < q.past /\ q.past <= Len(frames)
    BY DEF Ranged, RangeInTrace
  <1>3. PICK a \in Nat : a = q.first
    BY <1>2
  <1>4. PICK b \in Nat : b = q.past
    BY <1>2
  <1>5. a < b /\ b <= Len(frames)
    BY <1>2, <1>3, <1>4
  <1>6. HasFrame(q, a) /\ HasFrame(q, b - 1)
    BY <1>1, <1>5 DEF HasFrame
  <1>7. ResolveWindow(q).start = frames[a + 1].start /\ ResolveWindow(q).end = frames[b].end
    BY <1>3, <1>4, <1>5, <1>6 DEF ResolveWindow
  <1>8. AskedFrames(q) = {frames[i + 1] : i \in a .. b - 1}
    BY <1>3, <1>4 DEF AskedFrames
  <1>9. Between(q)
           = {[start |-> frames[i].end, end |-> frames[i + 1].start] : i \in a + 1 .. b - 1}
    BY <1>3, <1>4 DEF Between
  <1>10. /\ Numbered(frames) /\ \A i \in DOMAIN frames : IsSpan(frames[i])
         /\ \A i \in DOMAIN frames : i + 1 \in DOMAIN frames => frames[i].end <= frames[i + 1].start
    BY DEF Ranged
  <1> HIDE DEF frames
  <1>11. (r.start <= frames[b].end /\ r.end >= frames[a + 1].start)
           <=> \/ \E i \in a .. b - 1 : Meets(r, frames[i + 1])
               \/ \E i \in a + 1 .. b - 1 :
                    Meets(r, [start |-> frames[i].end, end |-> frames[i + 1].start])
    BY <1>5, <1>10, WindowIsFrames
  <1>12. QED
    BY <1>7, <1>8, <1>9, <1>11

\* The rows of a question that meet its window, and those that meet its frames.
NearWindow(q) ==
  {i \in DOMAIN q.rows : /\ q.rows[i].start <= ResolveWindow(q).end
                         /\ q.rows[i].end >= ResolveWindow(q).start}

NearFrames(q) == {i \in DOMAIN q.rows : \E f \in AskedFrames(q) \cup Between(q) : Meets(q.rows[i], f)}

\* What meets the window meets a frame asked for, or the time between two.
LEMMA NearIsNear ==
  ASSUME NEW q, Ranged(q), RangeInTrace(q), \A i \in DOMAIN q.rows : IsSpan(q.rows[i])
  PROVE  NearWindow(q) = NearFrames(q)
  <1>1. ASSUME NEW i \in DOMAIN q.rows
        PROVE  i \in NearWindow(q) <=> i \in NearFrames(q)
    <2>1. IsSpan(q.rows[i])
      OBVIOUS
    <2>2. (q.rows[i].start <= ResolveWindow(q).end /\ q.rows[i].end >= ResolveWindow(q).start)
            <=> \E f \in AskedFrames(q) \cup Between(q) : Meets(q.rows[i], f)
      BY <2>1, RangeMeets
    <2>3. QED
      BY <2>2 DEF NearWindow, NearFrames
  <1>2. QED
    BY <1>1 DEF NearWindow, NearFrames

\* A listing below its limit shows every row.
LEMMA BelowLimit ==
  ASSUME NEW rows, Numbered(rows), NEW limit \in Nat \ {0}, Len(FirstOf(rows, limit)) < limit
  PROVE  {e.id : e \in ToSet(FirstOf(rows, limit))} = IdsOfRows(rows)
  <1> DEFINE events == FirstOf(rows, limit)
  <1>1. rows \in Seq(ToSet(rows)) /\ DOMAIN rows = 1 .. Len(rows)
    BY LenProperties DEF Numbered
  <1>2. /\ Len(events) \in Nat /\ DOMAIN events = 1 .. Len(events)
        /\ Len(rows) \in Nat /\ Len(events) = Lesser(limit, Len(rows))
        /\ \A i \in 1 .. Len(events) : events[i] = rows[i]
    BY <1>1, FirstRows
  <1>3. Len(events) < limit
    OBVIOUS
  <1> HIDE DEF events
  <1>4. Len(events) = Len(rows)
    BY <1>2, <1>3 DEF Lesser
  <1>5. {e.id : e \in ToSet(events)} = IdsOfRows(rows)
    BY <1>1, <1>2, <1>4 DEF ToSet, IdsOfRows
  <1>6. QED
    BY <1>5 DEF events

\* Tasks of a frame range are those that met one of the frames
\* or the time between two.
LEMMA TasksOfFrames ==
  ASSUME NEW q, Ranged(q), RangeInTrace(q), Numbered(q.rows), q.limit \in Nat \ {0},
         \A i \in DOMAIN q.rows : IsSpan(q.rows[i]), Len(RunTaskList(q).events) < q.limit
  PROVE  {e.id : e \in ToSet(RunTaskList(q).events)} = {q.rows[i].id : i \in NearFrames(q)}
  <1> DEFINE near == NearWindow(q)
             rows == RowsAt(q.rows, near)
  <1>1. Numbered(rows) /\ IdsOfRows(rows) = {q.rows[i].id : i \in near}
    <2>1. near \in SUBSET DOMAIN q.rows
      BY DEF NearWindow
    <2> HIDE DEF near
    <2>2. Numbered(rows)
      BY <2>1, KeptNumbered
    <2>3. IdsOfRows(rows) = {q.rows[i].id : i \in near}
      BY <2>1, IdsKept
    <2>4. QED
      BY <2>2, <2>3
  <1>2. RunTaskList(q).events = FirstOf(rows, q.limit)
    BY DEF RunTaskList, Listing, Overlapping, Selected, NearWindow
  <1> HIDE DEF rows
  <1>3. {e.id : e \in ToSet(FirstOf(rows, q.limit))} = IdsOfRows(rows)
    BY <1>1, <1>2, BelowLimit
  <1>4. QED
    BY <1>1, <1>2, <1>3, NearIsNear

\* Assets of a frame range are those that met one of the frames and have a package.
LEMMA AssetsOfFrames ==
  ASSUME NEW q, Ranged(q), RangeInTrace(q), Numbered(q.rows), q.limit \in Nat \ {0},
         \A i \in DOMAIN q.rows : IsSpan(q.rows[i]), Len(RunAsset(q).events) < q.limit
  PROVE  {e.id : e \in ToSet(RunAsset(q).events)}
           = {q.rows[i].id : i \in {i \in NearFrames(q) : q.rows[i].info}}
  <1> DEFINE near == NearWindow(q)
             over == RowsAt(q.rows, near)
             known == {i \in DOMAIN over : over[i].info}
             rows == RowsAt(over, known)
  <1>1. /\ Numbered(over)
        /\ \A n \in DOMAIN over : \E p \in near : over[n] = q.rows[p]
        /\ \A p \in near : \E n \in DOMAIN over : over[n] = q.rows[p]
    <2>1. near \in SUBSET DOMAIN q.rows
      BY DEF NearWindow
    <2> HIDE DEF near
    <2>2. QED
      BY <2>1, KeptNumbered
  <1>2. RunAsset(q).events = FirstOf(rows, q.limit)
    BY DEF RunAsset, AssetTable, Overlapping, Selected, NearWindow
  <1> HIDE DEF near, over
  <1>3. Numbered(rows) /\ IdsOfRows(rows) = {over[i].id : i \in known}
    <2>1. known \in SUBSET DOMAIN over
      OBVIOUS
    <2> HIDE DEF known
    <2>2. QED
      BY <1>1, <2>1, KeptNumbered, IdsKept
  <1> HIDE DEF rows
  <1>4. {e.id : e \in ToSet(FirstOf(rows, q.limit))} = IdsOfRows(rows)
    BY <1>2, <1>3, BelowLimit
  <1>5. {over[i].id : i \in known} = {q.rows[i].id : i \in {i \in near : q.rows[i].info}}
    BY <1>1
  <1>6. near = NearFrames(q)
    BY NearIsNear DEF near
  <1>7. QED
    BY <1>2, <1>3, <1>4, <1>5, <1>6

\* As many rows of over are good as there are good rows at some places.
AsManyGood(over, rows, places, Good) ==
  Cardinality({i \in DOMAIN over : over[i] \in Good})
    = Cardinality({p \in places : rows[p] \in Good})

\* Rows chosen twice over are as many as the places that pass both times.
LEMMA ChosenTwice ==
  ASSUME NEW S, NEW rows \in Seq(S), NEW places \in SUBSET DOMAIN rows, NEW Good
  PROVE  AsManyGood(RowsAt(rows, places), rows, places, Good)
  <1> DEFINE over == RowsAt(rows, places)
             twice == {i \in DOMAIN over : over[i] \in Good}
             both == {p \in places : rows[p] \in Good}
  <1>1. /\ over \in Seq(S) /\ \E h : Chosen(over, h, rows, places)
    BY RowsAtRows
  <1> HIDE DEF over
  <1>2. PICK h : Chosen(over, h, rows, places)
    BY <1>1
  <1>3. DOMAIN over = 1 .. Len(over) /\ Len(over) \in Nat
        /\ DOMAIN rows = 1 .. Len(rows) /\ Len(rows) \in Nat
    BY <1>1, LenProperties
  <1>4. IsFiniteSet(twice)
    <2>1. PICK n \in Nat : DOMAIN over = 1 .. n
      BY <1>3
    <2>2. IsFiniteSet(DOMAIN over) /\ twice \subseteq DOMAIN over
      BY <2>1, FS_Interval
    <2>3. QED
      BY <2>2, FS_Subset
  <1> DEFINE f == [i \in twice |-> h[i]]
  <1>5. \A i \in DOMAIN over : h[i] \in places /\ h[i] \in Nat /\ over[i] = rows[h[i]]
    BY <1>2, <1>3 DEF Chosen
  <1>6. f \in [twice -> both]
    BY <1>5
  <1>7. ASSUME NEW i \in twice, NEW j \in twice, i # j PROVE f[i] # f[j]
    <2>1. i \in 1 .. Len(over) /\ j \in 1 .. Len(over) /\ (i < j \/ j < i)
      BY <1>3, <1>7
    <2>2. h[i] < h[j] \/ h[j] < h[i]
      BY <1>2, <2>1 DEF Chosen
    <2>3. QED
      BY <1>3, <1>5, <2>1, <2>2
  <1>8. ASSUME NEW p \in both PROVE \E i \in twice : f[i] = p
    <2>1. PICK i \in 1 .. Len(over) : h[i] = p
      BY <1>2 DEF Chosen
    <2>2. i \in twice /\ f[i] = p
      BY <1>3, <1>5, <2>1
    <2>3. QED
      BY <2>2
  <1> HIDE DEF f, twice, both
  <1>9. f \in Bijection(twice, both)
    BY <1>6, <1>7, <1>8 DEF Bijection, Injection, Surjection, IsInjective
  <1>10. Cardinality(both) = Cardinality(twice)
    BY <1>4, <1>9, FS_Bijection DEF ExistsBijection
  <1>11. QED
    BY <1>10 DEF over, twice, both, AsManyGood

\* The instances of a name in a frame range are those that met one of the frames.
LEMMA InstancesOfFrames ==
  ASSUME NEW q, Ranged(q), RangeInTrace(q), q.channel = "cpu", NumberedLists(q.timelines),
         \A t \in DOMAIN q.timelines : \A i \in DOMAIN q.timelines[t] : IsSpan(q.timelines[t][i])
  PROVE  LET events == AllEvents(q) IN
         Len(RunTimeline(q))
           = Len(RowsAt(events, {i \in DOMAIN events :
                                   /\ events[i].timer \in TimerIdsByName(q)
                                   /\ \E f \in AskedFrames(q) \cup Between(q) : Meets(events[i], f)}))
  <1> DEFINE events == AllEvents(q)
             S == ToSet(events)
             ids == TimerIdsByName(q)
             w == ResolveWindow(q)
             near == {i \in DOMAIN events : events[i].start <= w.end /\ events[i].end >= w.start}
             over == RowsAt(events, near)
             Good == {e \in S : e.timer \in ids}
             twice == {i \in DOMAIN over : over[i].timer \in ids}
             found == RowsAt(over, twice)
             asked == {i \in DOMAIN events : /\ events[i].timer \in ids
                                             /\ \E f \in AskedFrames(q) \cup Between(q) : Meets(events[i], f)}
  <1>1. /\ Numbered(events)
        /\ \A n \in DOMAIN events : \E t \in DOMAIN q.timelines : \E j \in DOMAIN q.timelines[t] :
             events[n] = q.timelines[t][j]
    BY JoinedNumbered DEF AllEvents
  <1>2. Len(RunTimeline(q)) = Len(found)
    <2> DEFINE Row(e) == [frame |-> FrameNumber(q.frames, e.start), start |-> e.start,
                          duration |-> Duration(e)]
    <2>1. RunTimeline(q) = [i \in DOMAIN found |-> Row(found[i])]
      BY DEF RunTimeline, EmitTimingInstances, Overlapping, Selected
    <2>2. \E n \in Nat : DOMAIN found = 1 .. n /\ Len(found) = n
      <3>1. events \in Seq(S) /\ near \in SUBSET DOMAIN events
        BY <1>1 DEF Numbered
      <3> HIDE DEF near, S, events
      <3>2. over \in Seq(S)
        BY <3>1, RowsAtRows
      <3> HIDE DEF over
      <3>3. twice \in SUBSET DOMAIN over
        OBVIOUS
      <3> HIDE DEF twice
      <3>4. found \in Seq(S)
        BY <3>2, <3>3, RowsAtRows
      <3> HIDE DEF found
      <3>5. QED
        BY <3>4, LenProperties
    <2> HIDE DEF found, Row
    <2>3. PICK n \in Nat : DOMAIN found = 1 .. n /\ Len(found) = n
      BY <2>2
    <2>4. Len([i \in 1 .. n |-> Row(found[i])]) = n
      <3> DEFINE g == [i \in 1 .. n |-> Row(found[i])]
                 R == {Row(found[i]) : i \in 1 .. n}
      <3>1. g \in [1 .. n -> R]
        OBVIOUS
      <3> HIDE DEF g, R
      <3>2. Len(g) = n
        BY <3>1, SeqFromFunction
      <3>3. QED
        BY <3>2 DEF g
    <2>5. QED
      BY <2>1, <2>3, <2>4
  <1>3. ASSUME NEW i \in DOMAIN events
        PROVE  (events[i].start <= w.end /\ events[i].end >= w.start)
                 <=> \E f \in AskedFrames(q) \cup Between(q) : Meets(events[i], f)
    <2>1. IsSpan(events[i])
      BY <1>1
    <2> HIDE DEF events
    <2>2. QED
      BY <2>1, RangeMeets
  <1>4. events \in Seq(S)
    BY <1>1 DEF Numbered
  <1>5. asked = {p \in near : events[p] \in Good}
    <2>1. \A i \in DOMAIN events : events[i] \in S
      BY DEF ToSet
    <2> HIDE DEF events, w, ids, S
    <2>2. QED
      BY <1>3, <2>1
  <1>6. near \in SUBSET DOMAIN events
    OBVIOUS
  <1>7. asked \in SUBSET DOMAIN events
    OBVIOUS
  <1> HIDE DEF events, near, asked, S
  <1>8. over \in Seq(S) /\ Cardinality({i \in DOMAIN over : over[i] \in Good}) = Cardinality(asked)
    <2> HIDE DEF Good, twice, ids, w
    <2>1. over \in Seq(S)
      BY <1>4, <1>6, RowsAtRows
    <2>2. AsManyGood(over, events, near, Good)
      BY <1>4, <1>6, ChosenTwice
    <2> HIDE DEF over
    <2>3. QED
      BY <1>5, <2>1, <2>2 DEF AsManyGood
  <1> HIDE DEF over
  <1>9. {i \in DOMAIN over : over[i] \in Good} = twice
    <2>1. \A i \in DOMAIN over : over[i] \in S
      BY <1>8, LenProperties
    <2>2. QED
      BY <2>1
  <1>10. twice \in SUBSET DOMAIN over
    OBVIOUS
  <1> HIDE DEF twice
  <1>11. Len(found) = Cardinality(twice)
    BY <1>8, <1>10, RowsAtRows
  <1>12. Len(RowsAt(events, asked)) = Cardinality(asked)
    BY <1>4, <1>7, RowsAtRows
  <1>13. QED
    BY <1>2, <1>8, <1>9, <1>11, <1>12 DEF asked, events

\* The rows from one place to another are a part of the sequence.
LEMMA RowsBetween ==
  ASSUME NEW S, NEW rows \in Seq(S), NEW a \in Nat, NEW b \in Nat, a < b, b <= Len(rows)
  PROVE  RowsAt(rows, a + 1 .. b) = SubSeq(rows, a + 1, b)
  <1> DEFINE places == a + 1 .. b
             before == [p \in places |-> {r \in places : r < p}]
  <1>1. Len(rows) \in Nat /\ DOMAIN rows = 1 .. Len(rows) /\ \A i \in 1 .. Len(rows) : rows[i] \in S
    BY LenProperties
  <1>2. Cardinality(places) = b - a
    <2>1. a + 1 \in Int /\ b \in Int /\ ~(a + 1 > b)
      OBVIOUS
    <2>2. Cardinality(places) = b - (a + 1) + 1
      BY <2>1, FS_Interval
    <2>3. QED
      BY <2>2
  <1>3. ASSUME NEW p \in places PROVE Cardinality(before[p]) = p - a - 1
    <2>1. before[p] = a + 1 .. p - 1
      OBVIOUS
    <2>2. PICK c \in Int : c = a + 1
      OBVIOUS
    <2>3. PICK d \in Int : d = p - 1
      OBVIOUS
    <2>4. Cardinality(c .. d) = IF c > d THEN 0 ELSE d - c + 1
      BY FS_Interval
    <2>5. p \in Int /\ a + 1 <= p
      OBVIOUS
    <2>6. (IF c > d THEN 0 ELSE d - c + 1) = p - a - 1
      BY <2>2, <2>3, <2>5
    <2>7. before[p] = c .. d
      BY <2>1, <2>2, <2>3
    <2>8. QED
      BY <2>4, <2>6, <2>7
  <1>4. ASSUME NEW n \in 1 .. b - a PROVE Nth(before, n) = a + n
    <2> HIDE DEF before
    <2>1. DOMAIN before = places
      BY DEF before
    <2>2. a + n \in places /\ Cardinality(before[a + n]) = n - 1
      <3>1. PICK p \in places : p = a + n
        OBVIOUS
      <3>2. QED
        BY <1>3, <3>1
    <2>3. ASSUME NEW p \in places, Cardinality(before[p]) = n - 1 PROVE p = a + n
      BY <1>3, <2>3
    <2>4. QED
      BY <2>1, <2>2, <2>3 DEF Nth
  <1>5. RowsAt(rows, places) = [n \in 1 .. b - a |-> rows[a + n]]
    <2>1. RowsAt(rows, places) = [n \in 1 .. Cardinality(places) |-> rows[Nth(before, n)]]
      BY DEF RowsAt
    <2> HIDE DEF before, places
    <2>2. QED
      BY <1>2, <1>4, <2>1
  <1>6. SubSeq(rows, a + 1, b) = [n \in 1 .. b - a |-> rows[a + n]]
    <2> DEFINE part == SubSeq(rows, a + 1, b)
    <2>1. PICK c \in Int : c = a + 1
      OBVIOUS
    <2>2. /\ part \in Seq(S) /\ Len(part) = IF c <= b THEN b - c + 1 ELSE 0
          /\ \A i \in 1 .. b - c + 1 : part[i] = rows[c + i - 1]
      <3>1. \A i \in c .. b : rows[i] \in S
        BY <1>1, <2>1
      <3>2. QED
        BY <2>1, <3>1, SubSeqProperties
    <2> HIDE DEF part
    <2>3. Len(part) = b - a /\ \A i \in 1 .. b - a : part[i] = rows[a + i]
      <3>1. b - c + 1 = b - a /\ c <= b /\ \A i \in 1 .. b - a : c + i - 1 = a + i
        BY <2>1
      <3>2. QED
        BY <2>2, <3>1
    <2>4. part = [i \in 1 .. Len(part) |-> part[i]]
      BY <2>2, LenProperties
    <2>5. part = [n \in 1 .. b - a |-> rows[a + n]]
      BY <2>3, <2>4
    <2>6. QED
      BY <2>5 DEF part
  <1>7. QED
    BY <1>5, <1>6

\* The frames of a range are those asked for.
LEMMA FramesOfRange ==
  ASSUME NEW q, Ranged(q), RangeInTrace(q)
  PROVE  RunFrames(q).events
           = FirstOf(RowsAt(q.frames, {i \in DOMAIN q.frames : q.frames[i] \in AskedFrames(q)}),
                     q.limit)
  <1> DEFINE frames == q.frames
  <1>1. /\ DOMAIN frames = 1 .. Len(frames) /\ Len(frames) \in Nat
        /\ \A i, j \in DOMAIN frames : i # j => frames[i].id # frames[j].id
    BY NumbersDiffer DEF Ranged
  <1>2. q.first \in Int /\ q.past \in Int /\ 0 <= q.first /\ q.first < q.past /\ q.past <= Len(frames)
    BY DEF Ranged, RangeInTrace
  <1>3. PICK a \in Nat : a = q.first
    BY <1>2
  <1>4. PICK b \in Nat : b = q.past
    BY <1>2
  <1>5. a < b /\ b <= Len(frames)
    BY <1>2, <1>3, <1>4
  <1>6. RunFrames(q).events = FirstOf(SubSeq(frames, a + 1, b), q.limit)
    <2>1. Lesser(a, Len(frames)) = a /\ Lesser(b, Len(frames)) = b /\ Greater(a, b) = b
      BY <1>1, <1>5 DEF Lesser, Greater
    <2>2. a >= 0 /\ b > 0
      BY <1>5
    <2>3. QED
      BY <1>3, <1>4, <2>1, <2>2 DEF RunFrames
  <1>7. {i \in DOMAIN frames : frames[i] \in AskedFrames(q)} = a + 1 .. b
    <2>1. AskedFrames(q) = {frames[i + 1] : i \in a .. b - 1}
      BY <1>3, <1>4 DEF AskedFrames
    <2> HIDE DEF frames
    <2>2. ASSUME NEW i \in DOMAIN frames, frames[i] \in AskedFrames(q) PROVE i \in a + 1 .. b
      <3>1. PICK j \in a .. b - 1 : frames[i] = frames[j + 1]
        BY <2>1, <2>2
      <3>2. PICK k \in DOMAIN frames : k = j + 1 /\ k \in a + 1 .. b
        BY <1>1, <1>5
      <3>3. i = k
        BY <1>1, <3>1, <3>2
      <3>4. QED
        BY <3>2, <3>3
    <2>3. ASSUME NEW i \in a + 1 .. b PROVE i \in DOMAIN frames /\ frames[i] \in AskedFrames(q)
      <3>1. PICK j \in a .. b - 1 : i = j + 1
        <4>1. i - 1 \in a .. b - 1 /\ i = (i - 1) + 1
          OBVIOUS
        <4>2. QED
          BY <4>1
      <3>2. QED
        BY <1>1, <1>5, <2>1, <3>1
    <2>4. QED
      BY <2>2, <2>3
  <1>8. frames \in Seq(ToSet(frames))
    BY DEF Ranged, Numbered
  <1> HIDE DEF frames
  <1>9. RowsAt(frames, a + 1 .. b) = SubSeq(frames, a + 1, b)
    BY <1>5, <1>8, RowsBetween
  <1>10. QED
    BY <1>6, <1>7, <1>9 DEF frames

-----------------------------------------------------------------------------
(* Comparisons: rows are the same seen from either side, and the names of a  *)
(* side are those that the trace has.                                      *)
\* The values of a function with a finite domain are finite.
LEMMA FiniteValues ==
  ASSUME NEW S, IsFiniteSet(S), NEW f, DOMAIN f = S
  PROVE  IsFiniteSet({f[x] : x \in S}) /\ Cardinality({f[x] : x \in S}) <= Cardinality(S)
  <1> DEFINE T == {f[x] : x \in S}
             g == [x \in S |-> f[x]]
  <1>1. g \in Surjection(S, T)
    BY DEF Surjection
  <1> HIDE DEF g, T
  <1>2. IsFiniteSet(T) /\ Cardinality(T) <= Cardinality(S)
    BY <1>1, FS_Surjection
  <1>3. QED
    BY <1>2 DEF T

\* A list has finitely many places.
LEMMA FinitePlaces ==
  ASSUME NEW rows, IsList(rows)
  PROVE  IsFiniteSet(DOMAIN rows) /\ Len(rows) \in Nat /\ DOMAIN rows = 1 .. Len(rows)
  <1>1. Len(rows) \in Nat /\ DOMAIN rows = 1 .. Len(rows)
    BY LenProperties DEF IsList
  <1>2. PICK n \in Nat : DOMAIN rows = 1 .. n
    BY <1>1
  <1>3. QED
    BY <1>1, <1>2, FS_Interval

\* Different rows, as many as there are, up to a limit.
FirstDifferent(s, rows, n) ==
  /\ s \in [1 .. Lesser(n, Cardinality(rows)) -> rows]
  /\ \A i, j \in 1 .. Lesser(n, Cardinality(rows)) : i < j => s[i] # s[j]

\* Below the limit they are all.
LEMMA WholeTable ==
  ASSUME NEW rows, IsFiniteSet(rows), NEW n \in Nat \ {0}, NEW s, FirstDifferent(s, rows, n)
  PROVE  /\ Cardinality(rows) \in Nat /\ Len(s) = Lesser(n, Cardinality(rows))
         /\ Cardinality(rows) <= n => ToSet(s) = rows
  <1> DEFINE N == Cardinality(rows)
  <1>1. N \in Nat
    BY FS_CardinalityType
  <1>2. PICK k \in Nat : k = Lesser(n, N)
    BY <1>1 DEF Lesser
  <1>3. s \in [1 .. k -> rows] /\ \A i, j \in 1 .. k : i < j => s[i] # s[j]
    BY <1>2 DEF FirstDifferent
  <1>4. Len(s) = k
    BY <1>3, SeqFromFunction
  <1>5. ASSUME N <= n PROVE ToSet(s) = rows
    <2>1. k = N
      BY <1>1, <1>2, <1>5 DEF Lesser
    <2>2. s \in Injection(1 .. k, rows)
      <3>1. ASSUME NEW i \in 1 .. k, NEW j \in 1 .. k, i # j PROVE s[i] # s[j]
        <4>1. i < j \/ j < i
          BY <3>1
        <4>2. QED
          BY <1>3, <4>1
      <3>2. QED
        BY <1>3, <3>1 DEF Injection, IsInjective
    <2>3. IsFiniteSet(1 .. k) /\ Cardinality(1 .. k) = k
      BY FS_Interval
    <2> HIDE DEF N
    <2>4. Cardinality(1 .. k) = Cardinality(rows)
      BY <2>1, <2>3 DEF N
    <2>5. s \in Surjection(1 .. k, rows)
      BY <2>2, <2>4, FS_Injection
    <2>6. QED
      BY <1>3, <2>5 DEF Surjection, ToSet
  <1>6. QED
    BY <1>1, <1>2, <1>4, <1>5

\* The rows of a comparison of sides, those that are not dropped.
KeptRows(q, a, b) ==
  {row \in {DiffRow(a, b, n, NoEvents) : n \in DOMAIN a \cup DOMAIN b} : KeepsRow(q, row)}

AllRows(a, b, none) == {DiffRow(a, b, n, none) : n \in DOMAIN a \cup DOMAIN b}

\* A row of the swapped comparison, with its columns exchanged, is the row.
LEMMA RowSwapped ==
  ASSUME NEW a, NEW b, NEW n, NEW none
  PROVE  SwappedRow(DiffRow(b, a, n, none)) = DiffRow(a, b, n, none)
  BY DEF SwappedRow, DiffRow

\* The threshold keeps a row whichever trace comes first.
LEMMA KeptSwapped ==
  ASSUME NEW q, NEW a, NEW b, NEW n
  PROVE  KeepsRow(Swapped(q), DiffRow(b, a, n, NoEvents)) <=> KeepsRow(q, DiffRow(a, b, n, NoEvents))
  <1> DEFINE r == DiffRow(a, b, n, NoEvents)
             s == DiffRow(b, a, n, NoEvents)
             inA == n \notin DOMAIN b
             inB == n \notin DOMAIN a
  <1>1. r = [name |-> n, a |-> SideOf(a, n, NoEvents), b |-> SideOf(b, n, NoEvents),
             onlyInA |-> inA, onlyInB |-> inB]
    BY DEF DiffRow
  <1>2. s = [name |-> n, a |-> SideOf(b, n, NoEvents), b |-> SideOf(a, n, NoEvents),
             onlyInA |-> inB, onlyInB |-> inA]
    BY DEF DiffRow
  <1> HIDE DEF r, s, inA, inB
  <1>3. s.a = r.b /\ s.b = r.a
    BY <1>1, <1>2
  <1>4. s.onlyInA = r.onlyInB /\ s.onlyInB = r.onlyInA
    BY <1>1, <1>2
  <1>5. Gap(s.b.p95, s.a.p95) = Gap(r.b.p95, r.a.p95)
    <2>1. \A x, y : Gap(x, y) = Gap(y, x)
      <3>1. \A x, y : {x - y, y - x} = {y - x, x - y}
        OBVIOUS
      <3>2. QED
        BY <3>1 DEF Gap
    <2>2. QED
      BY <1>3, <2>1
  <1>6. Swapped(q).threshold = q.threshold
    BY DEF Swapped
  <1>7. KeepsRow(Swapped(q), s) <=> KeepsRow(q, r)
    BY <1>4, <1>5, <1>6, Zenon DEF KeepsRow
  <1>8. QED
    BY <1>7 DEF r, s

\* Two sets of rows that are each other with the columns exchanged.
Mirrored(R, T) ==
  R = {SwappedRow(row) : row \in T} /\ T = {SwappedRow(row) : row \in R}

\* What holds of an answer and the answer to the swapped question, when each holds
\* different rows, as many as there are up to the limit, and the rows of one are
\* those of the other with the columns exchanged.
LEMMA TablesSwapped ==
  ASSUME NEW R, NEW T, IsFiniteSet(R), Mirrored(R, T),
         NEW n \in Nat \ {0}, NEW s, FirstDifferent(s, R, n), Len(s) < n,
         NEW t, FirstDifferent(t, T, n)
  PROVE  Mirrored(ToSet(s), ToSet(t))
  <1>1. IsFiniteSet(T) /\ Cardinality(T) <= Cardinality(R)
    <2> DEFINE f == [row \in R |-> SwappedRow(row)]
    <2>1. T = {f[row] : row \in R}
      BY DEF Mirrored
    <2>2. DOMAIN f = R
      OBVIOUS
    <2> HIDE DEF f
    <2>3. IsFiniteSet({f[x] : x \in R}) /\ Cardinality({f[x] : x \in R}) <= Cardinality(R)
      BY <2>2, FiniteValues
    <2>4. QED
      BY <2>1, <2>3
  <1>2. /\ Cardinality(R) \in Nat /\ Len(s) = Lesser(n, Cardinality(R))
        /\ Cardinality(R) <= n => ToSet(s) = R
    BY WholeTable
  <1>3. Cardinality(T) \in Nat /\ (Cardinality(T) <= n => ToSet(t) = T)
    BY <1>1, WholeTable
  <1>4. Cardinality(R) <= n
    <2>1. Len(s) < n /\ n \in Nat
      OBVIOUS
    <2>2. PICK c \in Nat : c = Cardinality(R)
      BY <1>2
    <2>3. Len(s) = Lesser(n, c)
      BY <1>2, <2>2
    <2>4. c <= n
      BY <2>1, <2>3 DEF Lesser
    <2>5. QED
      BY <2>2, <2>4
  <1>5. ToSet(s) = R /\ ToSet(t) = T
    BY <1>1, <1>2, <1>3, <1>4
  <1>6. QED
    BY <1>5

\* So are the rows of a comparison and of the swapped one.
LEMMA RowsSwapped ==
  ASSUME NEW q, NEW a, NEW b
  PROVE  /\ KeptRows(q, a, b) = {SwappedRow(row) : row \in KeptRows(Swapped(q), b, a)}
         /\ KeptRows(Swapped(q), b, a) = {SwappedRow(row) : row \in KeptRows(q, a, b)}
  <1> DEFINE N == DOMAIN a \cup DOMAIN b
             D(n) == DiffRow(a, b, n, NoEvents)
             E(n) == DiffRow(b, a, n, NoEvents)
             M == {n \in N : KeepsRow(q, D(n))}
  <1>1. \A n : SwappedRow(E(n)) = D(n) /\ SwappedRow(D(n)) = E(n)
    BY RowSwapped
  <1>2. \A n : KeepsRow(Swapped(q), E(n)) <=> KeepsRow(q, D(n))
    BY KeptSwapped
  <1>3. KeptRows(q, a, b) = {D(n) : n \in M}
    BY DEF KeptRows
  <1>4. KeptRows(Swapped(q), b, a) = {E(n) : n \in M}
    <2>1. KeptRows(Swapped(q), b, a) = {E(n) : n \in {n \in N : KeepsRow(Swapped(q), E(n))}}
      BY DEF KeptRows
    <2> HIDE DEF D, E, N
    <2>2. {n \in N : KeepsRow(Swapped(q), E(n))} = M
      BY <1>2
    <2>3. QED
      BY <2>1, <2>2
  <1> HIDE DEF D, E, M
  <1>5. QED
    BY <1>1, <1>3, <1>4

\* And those of a comparison that drops none.
LEMMA AllSwapped ==
  ASSUME NEW a, NEW b, NEW none
  PROVE  AllRows(a, b, none) = {SwappedRow(row) : row \in AllRows(b, a, none)}
  <1> DEFINE D(n) == DiffRow(a, b, n, none)
             E(n) == DiffRow(b, a, n, none)
             N == DOMAIN a \cup DOMAIN b
  <1>1. \A n : SwappedRow(E(n)) = D(n)
    BY RowSwapped
  <1>2. AllRows(a, b, none) = {D(n) : n \in N} /\ AllRows(b, a, none) = {E(n) : n \in N}
    BY DEF AllRows
  <1> HIDE DEF D, E, N
  <1>3. QED
    BY <1>1, <1>2

\* Sides with finitely many names have finitely many rows.
LEMMA FiniteRows ==
  ASSUME NEW a, NEW b, IsFiniteSet(DOMAIN a), IsFiniteSet(DOMAIN b), NEW none
  PROVE  IsFiniteSet(AllRows(a, b, none))
  <1> DEFINE N == DOMAIN a \cup DOMAIN b
             f == [n \in N |-> DiffRow(a, b, n, none)]
  <1>1. IsFiniteSet(N)
    BY FS_Union
  <1>2. AllRows(a, b, none) = {f[n] : n \in N} /\ DOMAIN f = N
    BY DEF AllRows
  <1> HIDE DEF f, N
  <1>3. QED
    BY <1>1, <1>2, FiniteValues

\* The event channels.
LEMMA FiniteKept ==
  ASSUME NEW q, NEW a, NEW b, IsFiniteSet(DOMAIN a), IsFiniteSet(DOMAIN b)
  PROVE  IsFiniteSet(KeptRows(q, a, b))
  <1>1. KeptRows(q, a, b) \subseteq AllRows(a, b, NoEvents)
    BY DEF KeptRows, AllRows
  <1>2. QED
    BY <1>1, FiniteRows, FS_Subset

\* Below the limit a comparison of events shows every row that is kept.
LEMMA WholeEvents ==
  ASSUME NEW q, q.limit \in Nat \ {0}, NEW a, NEW b, IsFiniteSet(DOMAIN a), IsFiniteSet(DOMAIN b),
         NEW s \in EmitEventDiff(q, a, b), Len(s) < q.limit
  PROVE  ToSet(s) = KeptRows(q, a, b)
  <1> DEFINE R == KeptRows(q, a, b)
  <1>1. IsFiniteSet(R)
    BY FiniteKept
  <1>2. FirstDifferent(s, R, q.limit)
    BY DEF EmitEventDiff, TopRows, FirstDifferent, KeptRows
  <1> HIDE DEF R
  <1>3. /\ Cardinality(R) \in Nat /\ Len(s) = Lesser(q.limit, Cardinality(R))
        /\ Cardinality(R) <= q.limit => ToSet(s) = R
    BY <1>1, <1>2, WholeTable
  <1>4. Cardinality(R) <= q.limit
    BY <1>3 DEF Lesser
  <1>5. QED
    BY <1>3, <1>4 DEF R

\* Exchanging the traces exchanges the columns: for events, memory and counters.
LEMMA EventsSwapped ==
  ASSUME NEW q, q.limit \in Nat \ {0}, NEW a, NEW b, IsFiniteSet(DOMAIN a), IsFiniteSet(DOMAIN b),
         NEW s \in EmitEventDiff(q, a, b), Len(s) < q.limit,
         NEW t \in EmitEventDiff(Swapped(q), b, a)
  PROVE  Mirrored(ToSet(s), ToSet(t))
  <1> DEFINE R == KeptRows(q, a, b)
             T == KeptRows(Swapped(q), b, a)
  <1>1. IsFiniteSet(R)
    BY FiniteKept
  <1>2. FirstDifferent(s, R, q.limit)
    BY DEF EmitEventDiff, TopRows, FirstDifferent, KeptRows
  <1>3. FirstDifferent(t, T, q.limit)
    BY DEF EmitEventDiff, TopRows, FirstDifferent, KeptRows, Swapped
  <1>4. Mirrored(R, T)
    BY RowsSwapped DEF Mirrored
  <1> HIDE DEF R, T
  <1>5. QED
    BY <1>1, <1>2, <1>3, <1>4, TablesSwapped

\* Memory.
LEMMA MemorySwapped ==
  ASSUME NEW q, q.limit \in Nat \ {0}, NEW a, NEW b, IsFiniteSet(DOMAIN a), IsFiniteSet(DOMAIN b),
         NEW s \in EmitMemoryDiff(q, a, b), Len(s) < q.limit,
         NEW t \in EmitMemoryDiff(Swapped(q), b, a)
  PROVE  Mirrored(ToSet(s), ToSet(t))
  <1>1. IsFiniteSet(AllRows(a, b, 0))
    BY FiniteRows
  <1>2. FirstDifferent(s, AllRows(a, b, 0), q.limit)
    BY DEF EmitMemoryDiff, TopRows, FirstDifferent, AllRows
  <1>3. FirstDifferent(t, AllRows(b, a, 0), q.limit)
    BY DEF EmitMemoryDiff, TopRows, FirstDifferent, AllRows, Swapped
  <1> DEFINE R == AllRows(a, b, 0)
             T == AllRows(b, a, 0)
  <1>4. Mirrored(R, T)
    BY AllSwapped DEF Mirrored
  <1>5. IsFiniteSet(R) /\ FirstDifferent(s, R, q.limit) /\ FirstDifferent(t, T, q.limit)
    BY <1>1, <1>2, <1>3
  <1> HIDE DEF R, T
  <1>6. QED
    BY <1>4, <1>5, TablesSwapped

\* Counters.
LEMMA CountersSwapped ==
  ASSUME NEW q, q.limit \in Nat \ {0}, NEW a, NEW b, IsFiniteSet(DOMAIN a), IsFiniteSet(DOMAIN b),
         NEW s \in EmitCounterDiff(q, a, b), Len(s) < q.limit,
         NEW t \in EmitCounterDiff(Swapped(q), b, a)
  PROVE  Mirrored(ToSet(s), ToSet(t))
  <1>1. IsFiniteSet(AllRows(a, b, NoSamples))
    BY FiniteRows
  <1>2. FirstDifferent(s, AllRows(a, b, NoSamples), q.limit)
    BY DEF EmitCounterDiff, TopRows, FirstDifferent, AllRows
  <1>3. FirstDifferent(t, AllRows(b, a, NoSamples), q.limit)
    BY DEF EmitCounterDiff, TopRows, FirstDifferent, AllRows, Swapped
  <1> DEFINE R == AllRows(a, b, NoSamples)
             T == AllRows(b, a, NoSamples)
  <1>4. Mirrored(R, T)
    BY AllSwapped DEF Mirrored
  <1>5. IsFiniteSet(R) /\ FirstDifferent(s, R, q.limit) /\ FirstDifferent(t, T, q.limit)
    BY <1>1, <1>2, <1>3
  <1> HIDE DEF R, T
  <1>6. QED
    BY <1>4, <1>5, TablesSwapped

\* Allocations: four rows in a fixed order.
LEMMA AllocationsSwapped ==
  ASSUME NEW a, NEW b, NEW s \in EmitMemallocDiff(a, b), NEW t \in EmitMemallocDiff(b, a)
  PROVE  Mirrored(ToSet(s), ToSet(t))
  <1> DEFINE F(i) == <<"peak", "live", "allocs", "frees">>[i]
             D(x, y, i) == [name |-> F(i), a |-> x[F(i)], b |-> y[F(i)],
                            onlyInA |-> FALSE, onlyInB |-> FALSE]
  <1>1. s = [i \in 1 .. 4 |-> D(a, b, i)] /\ t = [i \in 1 .. 4 |-> D(b, a, i)]
    BY DEF EmitMemallocDiff
  <1>2. \A i : SwappedRow(D(b, a, i)) = D(a, b, i) /\ SwappedRow(D(a, b, i)) = D(b, a, i)
    BY DEF SwappedRow
  <1> HIDE DEF D
  <1>3. ToSet(s) = {D(a, b, i) : i \in 1 .. 4} /\ ToSet(t) = {D(b, a, i) : i \in 1 .. 4}
    BY <1>1 DEF ToSet
  <1>4. QED
    BY <1>2, <1>3 DEF Mirrored

\* Lists of a trace, one after the other.
LEMMA JoinedIsList ==
  ASSUME NEW lists, Len(lists) \in Nat, DOMAIN lists = 1 .. Len(lists),
         \A i \in DOMAIN lists : IsList(lists[i])
  PROVE  /\ IsList(Joined(lists))
         /\ \A n \in DOMAIN Joined(lists) : \E i \in DOMAIN lists : \E j \in DOMAIN lists[i] :
              Joined(lists)[n] = lists[i][j]
         /\ \A i \in DOMAIN lists : \A j \in DOMAIN lists[i] : \E n \in DOMAIN Joined(lists) :
              Joined(lists)[n] = lists[i][j]
  <1>1. ASSUME NEW i \in 1 .. Len(lists)
        PROVE  Len(lists[i]) \in Nat /\ DOMAIN lists[i] = 1 .. Len(lists[i])
    BY FinitePlaces
  <1>2. Lists(lists)
    BY <1>1 DEF Lists
  <1> DEFINE all == Joined(lists)
  <1>3. /\ Table(all)
        /\ \A n \in DOMAIN all : \E i \in DOMAIN lists : \E j \in DOMAIN lists[i] : all[n] = lists[i][j]
        /\ \A i \in DOMAIN lists : \A j \in DOMAIN lists[i] : \E n \in DOMAIN all : all[n] = lists[i][j]
    BY <1>2, JoinedTable
  <1> HIDE DEF all
  <1>4. IsList(all)
    BY <1>3 DEF Table, IsList
  <1>5. QED
    BY <1>3, <1>4 DEF all

\* The rows kept of a list are a list of its rows.
LEMMA KeptIsList ==
  ASSUME NEW rows, IsList(rows), NEW places \in SUBSET DOMAIN rows
  PROVE  LET kept == RowsAt(rows, places) IN
         /\ IsList(kept)
         /\ \A n \in DOMAIN kept : \E p \in places : kept[n] = rows[p]
         /\ \A p \in places : \E n \in DOMAIN kept : kept[n] = rows[p]
  <1>1. Table(rows)
    BY DEF Table, IsList
  <1> DEFINE kept == RowsAt(rows, places)
  <1>2. /\ Table(kept)
        /\ \A n \in DOMAIN kept : \E p \in places : kept[n] = rows[p]
        /\ \A p \in places : \E n \in DOMAIN kept : kept[n] = rows[p]
    BY <1>1, KeptTable
  <1> HIDE DEF kept
  <1>3. IsList(kept)
    BY <1>2 DEF Table, IsList
  <1>4. QED
    BY <1>2, <1>3 DEF kept

\* A function of the places of a list is a list.
LEMMA MappedIsList ==
  ASSUME NEW rows, IsList(rows), NEW f, DOMAIN f = DOMAIN rows, f = [i \in DOMAIN f |-> f[i]]
  PROVE  IsList(f) /\ Len(f) = Len(rows) /\ DOMAIN f = 1 .. Len(f) /\ Len(f) \in Nat
  <1>1. PICK n \in Nat : n = Len(rows) /\ DOMAIN rows = 1 .. n
    BY FinitePlaces
  <1> DEFINE S == ToSet(f)
  <1>2. f \in [1 .. n -> S]
    BY <1>1 DEF ToSet
  <1> HIDE DEF S
  <1>3. f \in Seq(S) /\ Len(f) = n
    BY <1>2, SeqFromFunction
  <1>4. QED
    BY <1>1, <1>3 DEF IsList, S

\* The events of a trace, all of them and those of the GPU.
LEMMA EventLists ==
  ASSUME NEW t, IsTrace(t)
  PROVE  IsList(AllEvents(t)) /\ IsList(GpuEvents(t))
  <1>1. IsList(AllEvents(t))
    <2>1. Len(t.timelines) \in Nat /\ DOMAIN t.timelines = 1 .. Len(t.timelines)
      BY FinitePlaces DEF IsTrace
    <2>2. \A i \in DOMAIN t.timelines : IsList(t.timelines[i])
      BY DEF IsTrace
    <2>3. QED
      BY <2>1, <2>2, JoinedIsList DEF AllEvents
  <1>2. IsList(GpuEvents(t))
    <2> DEFINE numbers == [i \in DOMAIN t.queues |-> t.queues[i].timeline]
               some == {i \in DOMAIN numbers : numbers[i] # 0}
               used == RowsAt(numbers, some)
               timelines == GpuTimelines(t)
               lists == [i \in DOMAIN timelines |-> t.timelines[timelines[i]]]
    <2>1. IsList(numbers) /\ \A i \in DOMAIN numbers : numbers[i] \in {0} \cup DOMAIN t.timelines
      <3>1. IsList(t.queues)
        BY DEF IsTrace
      <3>2. IsList(numbers)
        BY <3>1, MappedIsList
      <3>3. QED
        BY <3>2 DEF IsTrace
    <2>2. some \in SUBSET DOMAIN numbers
      OBVIOUS
    <2>3. IsList(used) /\ \A n \in DOMAIN used : \E p \in some : used[n] = numbers[p]
      <3> HIDE DEF numbers, some
      <3>1. QED
        BY <2>1, <2>2, KeptIsList
    <2>4. \A n \in DOMAIN used : used[n] \in DOMAIN t.timelines
      <3> HIDE DEF numbers, used
      <3>1. QED
        BY <2>1, <2>3
    <2>5. timelines = IF used # <<>> THEN used ELSE t.legacy
      BY DEF GpuTimelines, Selected
    <2> HIDE DEF timelines, used
    <2>6. IsList(timelines) /\ \A i \in DOMAIN timelines : timelines[i] \in DOMAIN t.timelines
      BY <2>3, <2>4, <2>5 DEF IsTrace
    <2>7. Len(lists) \in Nat /\ DOMAIN lists = 1 .. Len(lists)
      BY <2>6, MappedIsList
    <2>8. \A i \in DOMAIN lists : IsList(lists[i])
      BY <2>6 DEF IsTrace
    <2> HIDE DEF lists
    <2>9. IsList(Joined(lists))
      BY <2>7, <2>8, JoinedIsList
    <2>10. QED
      BY <2>9 DEF GpuEvents, lists, timelines
  <1>3. QED
    BY <1>1, <1>2

\* The event of a timer that a digest of a scope counts.
Counts(t, scope, e) ==
  /\ t.timers[e.timer].name # NoName /\ t.timers[e.timer].scope = scope
  /\ t.prefix => t.timers[e.timer].prefixed

\* The names of those events.
CountedNames(t, scope, events) ==
  {t.timers[events[i].timer].name : i \in {i \in DOMAIN events : Counts(t, scope, events[i])}}

\* More columns change no name.
LEMMA NameKept ==
  ASSUME NEW row, "name" \in DOMAIN row, NEW columns
  PROVE  Widened(row, columns).name = row.name
  BY DEF Widened

\* A side has the names of its rows, and finitely many.
LEMMA SideOfDigest ==
  ASSUME NEW t, NEW events, IsList(events), NEW scope
  PROVE  LET side == ByName(DigestRows(t, events, scope)) IN
         DOMAIN side = CountedNames(t, scope, events) /\ IsFiniteSet(DOMAIN side)
  <1> DEFINE side == ByName(DigestRows(t, events, scope))
             counted == {i \in DOMAIN events : Counts(t, scope, events[i])}
             names == {t.timers[events[i].timer].name : i \in counted}
             K == {k \in TimersOf(events) : /\ t.timers[k].name # NoName
                                            /\ t.timers[k].scope = scope
                                            /\ t.prefix => t.timers[k].prefixed}
             key(k) == [name |-> t.timers[k].name, timer |-> k]
             stats(k) == Stats(Durations(EventsOfTimer(events, k)))
             R == {Widened(key(k), stats(k)) : k \in K}
  <1>2. \A k : Widened(key(k), stats(k)).name = t.timers[k].name
    <2>1. \A k : "name" \in DOMAIN key(k) /\ key(k).name = t.timers[k].name
      OBVIOUS
    <2> HIDE DEF key, stats
    <2>2. QED
      BY <2>1, NameKept
  <1>3. DOMAIN side = {r.name : r \in R}
    BY DEF ByName, DigestRows
  <1> HIDE DEF side
  <1>4. DOMAIN side = {t.timers[k].name : k \in K}
    <2> HIDE DEF key, stats, K
    <2>1. QED
      BY <1>2, <1>3
  <1>5. {t.timers[k].name : k \in K} = names
    BY DEF TimersOf, Counts
  <1>6. IsFiniteSet(names)
    <2> DEFINE f == [i \in counted |-> t.timers[events[i].timer].name]
    <2>1. IsFiniteSet(counted)
      BY FinitePlaces, FS_Subset
    <2>2. names = {f[i] : i \in counted} /\ DOMAIN f = counted
      OBVIOUS
    <2> HIDE DEF f, counted, names
    <2>3. QED
      BY <2>1, <2>2, FiniteValues
  <1> HIDE DEF names, K
  <1>7. DOMAIN side = names /\ IsFiniteSet(DOMAIN side)
    BY <1>4, <1>5, <1>6
  <1>8. QED
    BY <1>7 DEF side, names, CountedNames

\* The events that a channel measures are those that its digest counts.
LEMMA MeasuredEvents ==
  ASSUME NEW t, NEW channel, channel # "region", NEW events, IsList(events),
         events = IF channel = "gpu" THEN GpuEvents(t) ELSE AllEvents(t)
  PROVE  NamesIn(t, channel) = CountedNames(t, channel, events)
  <1> DEFINE counted == {i \in DOMAIN events : Counts(t, channel, events[i])}
             kept == RowsAt(events, counted)
             m == [i \in DOMAIN kept |->
                     [key |-> kept[i].timer, name |-> t.timers[kept[i].timer].name,
                      time |-> Duration(kept[i])]]
  <1>1. Measured(t, channel) = m
    <2>1. {i \in DOMAIN events : /\ t.timers[events[i].timer].scope = channel
                                 /\ t.timers[events[i].timer].name # NoName
                                 /\ t.prefix => t.timers[events[i].timer].prefixed} = counted
      BY DEF Counts
    <2>2. QED
      BY <2>1 DEF Measured, Selected
  <1>2. /\ \A n \in DOMAIN kept : \E p \in counted : kept[n] = events[p]
        /\ \A p \in counted : \E n \in DOMAIN kept : kept[n] = events[p]
    <2>1. counted \in SUBSET DOMAIN events
      OBVIOUS
    <2> HIDE DEF counted
    <2>2. QED
      BY <2>1, KeptIsList
  <1> HIDE DEF kept, counted
  <1>3. NamesIn(t, channel) = {t.timers[kept[i].timer].name : i \in DOMAIN kept}
    BY <1>1 DEF NamesIn
  <1> HIDE DEF m
  <1>4. {t.timers[kept[i].timer].name : i \in DOMAIN kept}
          = {t.timers[events[i].timer].name : i \in counted}
    BY <1>2
  <1>5. QED
    BY <1>3, <1>4 DEF counted, CountedNames

\* All regions of a trace.
LEMMA RegionsOfTrace ==
  ASSUME NEW t, IsTrace(t)
  PROVE  LET rows == RowsOf(t.groups, LAMBDA g : TRUE) IN
         /\ IsList(rows)
         /\ \A n \in DOMAIN rows : /\ rows[n].start \in 0 .. t.duration
                                   /\ rows[n].end = Open \/ (rows[n].end \in Int /\ rows[n].start <= rows[n].end)
  <1> DEFINE groups == t.groups
             every == {g \in DOMAIN groups : TRUE}
             wanted == RowsAt(groups, every)
             lists == [i \in DOMAIN wanted |-> wanted[i].rows]
             rows == RowsOf(t.groups, LAMBDA g : TRUE)
             Fits(r) == /\ r.start \in 0 .. t.duration
                        /\ r.end = Open \/ (r.end \in Int /\ r.start <= r.end)
  <1>1. /\ IsList(groups)
        /\ \A g \in DOMAIN groups : IsList(groups[g].rows) /\ \A r \in ToSet(groups[g].rows) : Fits(r)
    BY DEF IsTrace
  <1>2. rows = Joined(lists)
    BY DEF RowsOf, Selected
  <1> HIDE DEF Fits, rows
  <1>3. IsList(wanted) /\ \A n \in DOMAIN wanted : \E p \in every : wanted[n] = groups[p]
    <2>1. every \in SUBSET DOMAIN groups
      OBVIOUS
    <2> HIDE DEF every, groups
    <2>2. QED
      BY <1>1, <2>1, KeptIsList
  <1>4. \A n \in DOMAIN wanted : IsList(wanted[n].rows) /\ \A r \in ToSet(wanted[n].rows) : Fits(r)
    <2> HIDE DEF wanted
    <2>1. QED
      BY <1>1, <1>3
  <1> HIDE DEF wanted, groups, every
  <1>5. Len(lists) \in Nat /\ DOMAIN lists = 1 .. Len(lists)
    BY <1>3, MappedIsList
  <1>6. \A i \in DOMAIN lists : IsList(lists[i]) /\ \A j \in DOMAIN lists[i] : Fits(lists[i][j])
    BY <1>4 DEF ToSet
  <1> HIDE DEF lists
  <1>7. /\ IsList(rows)
        /\ \A n \in DOMAIN rows : \E i \in DOMAIN lists : \E j \in DOMAIN lists[i] : rows[n] = lists[i][j]
    BY <1>2, <1>5, <1>6, JoinedIsList
  <1>8. \A n \in DOMAIN rows : Fits(rows[n])
    BY <1>6, <1>7
  <1>9. QED
    BY <1>7, <1>8 DEF Fits, rows

\* The side of the regions: none is lost by being cut to the trace.
LEMMA SideOfRegions ==
  ASSUME NEW t, IsTrace(t)
  PROVE  DOMAIN BuildRegionSide(t) = NamesIn(t, "region") /\ IsFiniteSet(DOMAIN BuildRegionSide(t))
  <1> DEFINE rows == RowsOf(t.groups, LAMBDA g : TRUE)
             asked == {i \in DOMAIN rows : t.prefix => rows[i].prefixed}
             wanted == RowsAt(rows, asked)
             clamped == [i \in DOMAIN wanted |-> ClampedRegion(t, wanted[i])]
             right == {i \in DOMAIN clamped : clamped[i].end >= clamped[i].start}
             counted == RowsAt(clamped, right)
             Fits(r) == /\ r.start \in 0 .. t.duration
                        /\ r.end = Open \/ (r.end \in Int /\ r.start <= r.end)
             m == [i \in DOMAIN wanted |->
                     [key |-> wanted[i].name, name |-> wanted[i].name,
                      time |-> (IF wanted[i].end = Open THEN t.duration ELSE wanted[i].end)
                               - wanted[i].start]]
  <1>1. Measured(t, "region") = m
    BY DEF Measured, Selected
  <1>2. CountedRegions(t) = counted
    BY DEF CountedRegions, Selected
  <1>3. IsList(rows) /\ \A n \in DOMAIN rows : Fits(rows[n])
    BY RegionsOfTrace
  <1>4. asked \in SUBSET DOMAIN rows
    OBVIOUS
  <1> HIDE DEF rows, Fits
  <1>5. IsList(wanted) /\ \A n \in DOMAIN wanted : \E p \in asked : wanted[n] = rows[p]
    <2> HIDE DEF asked
    <2>1. QED
      BY <1>3, <1>4, KeptIsList
  <1>6. \A n \in DOMAIN wanted : Fits(wanted[n])
    <2> HIDE DEF wanted
    <2>1. QED
      BY <1>3, <1>5
  <1> HIDE DEF wanted, asked
  <1>7. DOMAIN clamped = DOMAIN wanted /\ IsList(clamped)
    BY <1>5, MappedIsList
  <1>8. \A n \in DOMAIN clamped : clamped[n].name = wanted[n].name
    BY DEF ClampedRegion
  <1>9. right = DOMAIN clamped
    <2>1. ASSUME NEW n \in DOMAIN wanted PROVE clamped[n].end >= clamped[n].start
      <3> DEFINE end == IF wanted[n].end = Open THEN t.duration ELSE Lesser(wanted[n].end, t.duration)
      <3>1. clamped[n].end = end /\ clamped[n].start = Greater(wanted[n].start, 0)
        BY <2>1 DEF ClampedRegion
      <3>2. t.duration \in Nat
        BY DEF IsTrace
      <3>3. wanted[n].start \in 0 .. t.duration
            /\ (wanted[n].end = Open \/ (wanted[n].end \in Int /\ wanted[n].start <= wanted[n].end))
        BY <1>6, <2>1 DEF Fits
      <3> HIDE DEF wanted, clamped
      <3>4. end >= Greater(wanted[n].start, 0)
        BY <3>2, <3>3 DEF Lesser, Greater
      <3>5. QED
        BY <3>1, <3>4
    <2>2. QED
      BY <2>1
  <1> HIDE DEF clamped
  <1>10. IsList(counted)
         /\ (\A n \in DOMAIN counted : \E p \in right : counted[n] = clamped[p])
         /\ \A p \in right : \E n \in DOMAIN counted : counted[n] = clamped[p]
    <2>1. right \in SUBSET DOMAIN clamped
      OBVIOUS
    <2> HIDE DEF right
    <2>2. QED
      BY <1>7, <2>1, KeptIsList
  <1> HIDE DEF counted, right
  <1> DEFINE names == {counted[i].name : i \in DOMAIN counted}
  <1>11. names = {wanted[i].name : i \in DOMAIN wanted}
    BY <1>7, <1>8, <1>9, <1>10
  <1>12. NamesIn(t, "region") = {wanted[i].name : i \in DOMAIN wanted}
    BY <1>1 DEF NamesIn
  <1>13. DOMAIN BuildRegionSide(t) = names
    <2> DEFINE stats(n) == Stats(Durations(Selected(counted, LAMBDA r : r.name = n)))
               R == {Widened([name |-> n], stats(n)) : n \in names}
    <2>1. DOMAIN BuildRegionSide(t) = {r.name : r \in R}
      BY <1>2 DEF BuildRegionSide, ByName, RegionRows
    <2>2. \A n : Widened([name |-> n], stats(n)).name = n
      <3> HIDE DEF stats
      <3>1. QED
        BY NameKept
    <2> HIDE DEF stats, names
    <2>3. QED
      BY <2>1, <2>2
  <1>14. IsFiniteSet(names)
    <2> DEFINE f == [i \in DOMAIN counted |-> counted[i].name]
    <2>1. names = {f[i] : i \in DOMAIN counted} /\ DOMAIN f = DOMAIN counted
      OBVIOUS
    <2>2. IsFiniteSet(DOMAIN counted)
      BY <1>10, FinitePlaces
    <2> HIDE DEF f, names
    <2>3. QED
      BY <2>1, <2>2, FiniteValues
  <1> HIDE DEF names
  <1>15. QED
    BY <1>11, <1>12, <1>13, <1>14

\* The side of an event channel: its names are those the channel measures.
LEMMA SideOfEvents ==
  ASSUME NEW t, IsTrace(t), NEW channel
  PROVE  /\ IsFiniteSet(DOMAIN BuildSide(channel, t))
         /\ channel \in EventChannels => DOMAIN BuildSide(channel, t) = NamesIn(t, channel)
  <1>1. IsList(AllEvents(t)) /\ IsList(GpuEvents(t))
    BY EventLists
  <1>2. CASE channel = "gpu"
    <2> DEFINE events == GpuEvents(t)
    <2>1. BuildSide(channel, t) = ByName(DigestRows(t, events, "gpu"))
      BY <1>2 DEF BuildSide
    <2>2. IsList(events) /\ events = IF channel = "gpu" THEN GpuEvents(t) ELSE AllEvents(t)
      BY <1>1, <1>2
    <2> HIDE DEF events
    <2>3. NamesIn(t, channel) = CountedNames(t, channel, events)
      BY <1>2, <2>2, MeasuredEvents
    <2>4. /\ DOMAIN ByName(DigestRows(t, events, "gpu")) = CountedNames(t, "gpu", events)
          /\ IsFiniteSet(DOMAIN ByName(DigestRows(t, events, "gpu")))
      BY <2>2, SideOfDigest
    <2>5. QED
      BY <1>2, <2>1, <2>3, <2>4
  <1>3. CASE channel = "region"
    BY <1>3, SideOfRegions DEF BuildSide
  <1>4. CASE channel \notin {"gpu", "region"}
    <2> DEFINE events == AllEvents(t)
    <2>1. BuildSide(channel, t) = ByName(DigestRows(t, events, "cpu"))
      BY <1>4 DEF BuildSide
    <2>2. IsList(events) /\ events = IF channel = "gpu" THEN GpuEvents(t) ELSE AllEvents(t)
      BY <1>1, <1>4
    <2> HIDE DEF events
    <2>3. NamesIn(t, channel) = CountedNames(t, channel, events)
      BY <1>4, <2>2, MeasuredEvents
    <2>4. channel \in EventChannels => channel = "cpu"
      BY <1>4 DEF EventChannels
    <2>5. /\ DOMAIN ByName(DigestRows(t, events, "cpu")) = CountedNames(t, "cpu", events)
          /\ IsFiniteSet(DOMAIN ByName(DigestRows(t, events, "cpu")))
      BY <2>2, SideOfDigest
    <2>6. QED
      BY <2>1, <2>3, <2>4, <2>5
  <1>5. QED
    BY <1>2, <1>3, <1>4

\* The names of tags and counters are finitely many too.
LEMMA SideOfTags ==
  ASSUME NEW t, IsList(t.tags)
  PROVE  IsFiniteSet(DOMAIN BuildMemorySide(t))
  <1> DEFINE used == {i \in DOMAIN t.tags : PeakOf(t.tags[i].samples) > 0}
             names == {t.tags[i].name : i \in used}
             f == [i \in used |-> t.tags[i].name]
  <1>1. DOMAIN BuildMemorySide(t) = names
    BY DEF BuildMemorySide
  <1>2. IsFiniteSet(used)
    BY FinitePlaces, FS_Subset
  <1>3. names = {f[i] : i \in used} /\ DOMAIN f = used
    OBVIOUS
  <1> HIDE DEF names, f, used
  <1>4. QED
    BY <1>1, <1>2, <1>3, FiniteValues

\* Those of counters.
LEMMA SideOfCounters ==
  ASSUME NEW t, IsList(t.counters)
  PROVE  IsFiniteSet(DOMAIN BuildCounterSide(t))
  <1> DEFINE names == {t.counters[i].name : i \in DOMAIN t.counters}
             f == [i \in DOMAIN t.counters |-> t.counters[i].name]
  <1>1. DOMAIN BuildCounterSide(t) \subseteq names
    BY DEF BuildCounterSide
  <1>2. IsFiniteSet(DOMAIN t.counters)
    BY FinitePlaces
  <1>3. names = {f[i] : i \in DOMAIN t.counters} /\ DOMAIN f = DOMAIN t.counters
    OBVIOUS
  <1> HIDE DEF names, f
  <1>4. IsFiniteSet(names)
    BY <1>2, <1>3, FiniteValues
  <1>5. QED
    BY <1>1, <1>4, FS_Subset

\* A name of one side alone stays in the table.
LEMMA LoneNamesKept ==
  ASSUME NEW q, NEW a, NEW b, NEW n \in (DOMAIN a \ DOMAIN b) \cup (DOMAIN b \ DOMAIN a)
  PROVE  n \in {row.name : row \in KeptRows(q, a, b)}
  <1> DEFINE r == DiffRow(a, b, n, NoEvents)
             A == SideOf(a, n, NoEvents)
             B == SideOf(b, n, NoEvents)
             inA == n \notin DOMAIN b
             inB == n \notin DOMAIN a
  <1>1. r = [name |-> n, a |-> A, b |-> B, onlyInA |-> inA, onlyInB |-> inB]
    BY DEF DiffRow
  <1>2. inA \/ inB
    OBVIOUS
  <1>3. r \in {DiffRow(a, b, m, NoEvents) : m \in DOMAIN a \cup DOMAIN b}
    OBVIOUS
  <1> HIDE DEF r, A, B, inA, inB
  <1>4. r.name = n /\ r.onlyInA = inA /\ r.onlyInB = inB
    BY <1>1
  <1>5. KeepsRow(q, r)
    BY <1>2, <1>4, Zenon DEF KeepsRow
  <1>6. r \in KeptRows(q, a, b)
    BY <1>3, <1>5 DEF KeptRows
  <1>7. QED
    BY <1>4, <1>6

\* A comparison is symmetric and complete.
LEMMA ComparisonFair ==
  ASSUME NEW q, CompareQuestion(q), NEW s \in RunCompare(q), Len(s) < q.limit
  PROVE  /\ \A t \in RunCompare(Swapped(q)) : {SwappedRow(row) : row \in ToSet(t)} = ToSet(s)
         /\ q.channel \in EventChannels =>
              (NamesIn(q.a, q.channel) \ NamesIn(q.b, q.channel))
                \cup (NamesIn(q.b, q.channel) \ NamesIn(q.a, q.channel))
                  \subseteq {row.name : row \in ToSet(s)}
  <1>1. q.limit \in Nat \ {0} /\ \A t \in {q.a, q.b} : IsTrace(t) /\ IsList(t.tags) /\ IsList(t.counters)
    BY DEF CompareQuestion
  <1>2. Swapped(q).channel = q.channel /\ Swapped(q).a = q.b /\ Swapped(q).b = q.a
    BY DEF Swapped
  <1>3. CASE q.channel = "memory"
    <2> DEFINE a == BuildMemorySide(q.a)
               b == BuildMemorySide(q.b)
    <2>1. s \in EmitMemoryDiff(q, a, b)
      BY <1>3 DEF RunCompare
    <2>2. RunCompare(Swapped(q)) = EmitMemoryDiff(Swapped(q), b, a)
      BY <1>2, <1>3 DEF RunCompare
    <2>3. IsFiniteSet(DOMAIN a) /\ IsFiniteSet(DOMAIN b)
      BY <1>1, SideOfTags
    <2>4. q.channel \notin EventChannels
      BY <1>3 DEF EventChannels
    <2> HIDE DEF a, b
    <2>5. \A t \in RunCompare(Swapped(q)) : Mirrored(ToSet(s), ToSet(t))
      BY <1>1, <2>1, <2>2, <2>3, MemorySwapped
    <2>6. QED
      BY <2>4, <2>5 DEF Mirrored
  <1>4. CASE q.channel = "counter"
    <2> DEFINE a == BuildCounterSide(q.a)
               b == BuildCounterSide(q.b)
    <2>1. s \in EmitCounterDiff(q, a, b)
      BY <1>4 DEF RunCompare
    <2>2. RunCompare(Swapped(q)) = EmitCounterDiff(Swapped(q), b, a)
      BY <1>2, <1>4 DEF RunCompare
    <2>3. IsFiniteSet(DOMAIN a) /\ IsFiniteSet(DOMAIN b)
      BY <1>1, SideOfCounters
    <2>4. q.channel \notin EventChannels
      BY <1>4 DEF EventChannels
    <2> HIDE DEF a, b
    <2>5. \A t \in RunCompare(Swapped(q)) : Mirrored(ToSet(s), ToSet(t))
      BY <1>1, <2>1, <2>2, <2>3, CountersSwapped
    <2>6. QED
      BY <2>4, <2>5 DEF Mirrored
  <1>5. CASE q.channel = "memalloc"
    <2> DEFINE a == BuildMemallocSide(q.a)
               b == BuildMemallocSide(q.b)
    <2>1. s \in EmitMemallocDiff(a, b)
      BY <1>5 DEF RunCompare
    <2>2. RunCompare(Swapped(q)) = EmitMemallocDiff(b, a)
      BY <1>2, <1>5 DEF RunCompare
    <2>3. q.channel \notin EventChannels
      BY <1>5 DEF EventChannels
    <2> HIDE DEF a, b
    <2>4. \A t \in RunCompare(Swapped(q)) : Mirrored(ToSet(s), ToSet(t))
      BY <2>1, <2>2, AllocationsSwapped
    <2>5. QED
      BY <2>3, <2>4 DEF Mirrored
  <1>6. CASE q.channel \notin {"memory", "counter", "memalloc"}
    <2> DEFINE a == BuildSide(q.channel, q.a)
               b == BuildSide(q.channel, q.b)
    <2>1. s \in EmitEventDiff(q, a, b)
      BY <1>6 DEF RunCompare
    <2>2. RunCompare(Swapped(q)) = EmitEventDiff(Swapped(q), b, a)
      BY <1>2, <1>6 DEF RunCompare
    <2>3. /\ IsFiniteSet(DOMAIN a) /\ IsFiniteSet(DOMAIN b)
          /\ q.channel \in EventChannels =>
               DOMAIN a = NamesIn(q.a, q.channel) /\ DOMAIN b = NamesIn(q.b, q.channel)
      BY <1>1, SideOfEvents
    <2> HIDE DEF a, b
    <2>4. \A t \in RunCompare(Swapped(q)) : Mirrored(ToSet(s), ToSet(t))
      BY <1>1, <2>1, <2>2, <2>3, EventsSwapped
    <2>5. ToSet(s) = KeptRows(q, a, b)
      BY <1>1, <2>1, <2>3, WholeEvents
    <2>6. (DOMAIN a \ DOMAIN b) \cup (DOMAIN b \ DOMAIN a) \subseteq {row.name : row \in ToSet(s)}
      BY <2>5, LoneNamesKept
    <2>7. QED
      BY <2>3, <2>4, <2>6 DEF Mirrored
  <1>7. QED
    BY <1>3, <1>4, <1>5, <1>6

-----------------------------------------------------------------------------
(* Views: the instances of a name, the callers and callees, a task, the     *)
(* frames of a callstack, the connections, and the heaps.                  *)
\* The first number of a list that has one.
LEMMA LeastIsMin ==
  ASSUME NEW T \in SUBSET Nat, IsFiniteSet(T), T # {}
  PROVE  Min(T) \in T /\ \A y \in T : Min(T) <= y
  <1>1. \E x \in T : \A y \in T : x <= y
    BY Least
  <1>2. QED
    BY <1>1 DEF Min

\* The number of a frame is that of every time in it.
LEMMA FrameOfTime ==
  ASSUME NEW frames, Numbered(frames), \A i \in DOMAIN frames : IsSpan(frames[i]),
         \A i \in DOMAIN frames : i + 1 \in DOMAIN frames => frames[i].end <= frames[i + 1].start,
         NEW time \in Int, NEW f \in DOMAIN frames, frames[f].start <= time, time < frames[f].end
  PROVE  FrameNumber(frames, time) = f - 1
  <1>1. DOMAIN frames = 1 .. Len(frames) /\ Len(frames) \in Nat
    BY NumbersDiffer
  <1>2. \A i, j \in DOMAIN frames : i < j => frames[i].end <= frames[j].start
    BY FramesFollow
  <1>3. \A i \in DOMAIN frames : /\ frames[i].start \in Int /\ frames[i].end \in Int
                                 /\ frames[i].start <= frames[i].end
    BY DEF IsSpan
  <1>4. {i \in DOMAIN frames : frames[i].start <= time} = 1 .. f
    <2>1. ASSUME NEW i \in DOMAIN frames PROVE frames[i].start <= time <=> i <= f
      <3>1. CASE i < f
        <4>1. frames[i].end <= frames[f].start
          BY <1>2, <3>1
        <4>2. QED
          BY <1>3, <3>1, <4>1, <1>1
      <3>2. CASE f < i
        <4>1. frames[f].end <= frames[i].start
          BY <1>2, <3>2
        <4>2. QED
          BY <1>3, <3>2, <4>1, <1>1
      <3>3. QED
        BY <1>1, <3>1, <3>2
    <2>2. QED
      BY <1>1, <2>1
  <1>5. Cardinality(1 .. f) = f
    BY <1>1, FS_Interval
  <1> DEFINE begun == {i \in DOMAIN frames : frames[i].start <= time}
  <1>6. FrameNumber(frames, time) = Greater(0, Cardinality(begun) - 1)
    BY DEF FrameNumber
  <1> HIDE DEF begun
  <1>7. Cardinality(begun) = f
    BY <1>4, <1>5 DEF begun
  <1>8. Greater(0, f - 1) = f - 1
    BY <1>1 DEF Greater
  <1>9. QED
    BY <1>6, <1>7, <1>8

\* A window over the whole trace.
LEMMA WholeWindow ==
  ASSUME NEW q, q.first \in Int, FullRange(q)
  PROVE  ResolveWindow(q).start = 0 /\ ResolveWindow(q).end = q.duration
  <1>1. ~(q.first >= 0 /\ q.first < q.past)
    BY DEF FullRange
  <1>2. QED
    BY <1>1 DEF ResolveWindow

\* A window is one between numbers.
LEMMA WindowOfNumbers ==
  ASSUME NEW q, RangeQuestion("timeline", q), q.duration \in Nat
  PROVE  ResolveWindow(q).start \in Int /\ ResolveWindow(q).end \in Int
  <1>1. DOMAIN q.frames = 1 .. Len(q.frames) /\ Len(q.frames) \in Nat
    BY NumbersDiffer DEF RangeQuestion
  <1>2. \A i \in 1 .. Len(q.frames) : q.frames[i].start \in Int /\ q.frames[i].end \in Int
    BY <1>1 DEF RangeQuestion, IsSpan
  <1> DEFINE given == q.first >= 0 /\ q.first < q.past
             s == IF given /\ HasFrame(q, q.first) THEN q.frames[q.first + 1].start ELSE 0
             e == IF given /\ HasFrame(q, q.past - 1) THEN q.frames[q.past].end ELSE q.duration
  <1>3. ResolveWindow(q).start = s /\ ResolveWindow(q).end = e
    BY DEF ResolveWindow
  <1>4. q.first \in Int /\ q.past \in Int
    BY DEF RangeQuestion
  <1>5. s \in Int
    BY <1>1, <1>2, <1>4 DEF HasFrame
  <1>6. e \in Int
    BY <1>1, <1>2, <1>4 DEF HasFrame
  <1>7. QED
    BY <1>3, <1>5, <1>6

\* Rows of a set are a list.
LEMMA ListOfRows ==
  ASSUME NEW S, NEW rows \in Seq(S)
  PROVE  IsList(rows)
  <1>1. PICK n \in Nat : n = Len(rows) /\ rows \in [1 .. n -> S]
    BY LenProperties
  <1> DEFINE T == ToSet(rows)
  <1>2. rows \in [1 .. n -> T]
    BY <1>1 DEF ToSet
  <1> HIDE DEF T
  <1>3. rows \in Seq(T)
    BY <1>2, SeqFromFunction
  <1>4. QED
    BY <1>3 DEF IsList, T

\* The rows at some places that are good: how many, and they themselves.
GoodCount(rows, places, Good) == Cardinality({p \in places : rows[p] \in Good})

GoodOnes(rows, places, Good) ==
  LET over == RowsAt(rows, places)
  IN  RowsAt(over, {i \in DOMAIN over : over[i] \in Good})

\* Counting the good rows at some places is keeping them.
LEMMA GoodOnesKept ==
  ASSUME NEW S, NEW rows \in Seq(S), NEW places \in SUBSET DOMAIN rows, NEW Good
  PROVE  LET found == GoodOnes(rows, places, Good)
         IN  /\ found \in Seq(S) /\ Len(found) = GoodCount(rows, places, Good)
             /\ \A n \in DOMAIN found : found[n] \in S
  <1> DEFINE over == RowsAt(rows, places)
             twice == {i \in DOMAIN over : over[i] \in Good}
             found == RowsAt(over, twice)
             good == {p \in places : rows[p] \in Good}
  <1>1. over \in Seq(S)
    BY RowsAtRows
  <1>2. AsManyGood(over, rows, places, Good)
    BY ChosenTwice
  <1> HIDE DEF over
  <1>3. Cardinality(twice) = Cardinality(good)
    BY <1>2 DEF AsManyGood
  <1>4. twice \in SUBSET DOMAIN over
    OBVIOUS
  <1> HIDE DEF twice, good
  <1>5. found \in Seq(S) /\ Len(found) = Cardinality(twice)
    BY <1>1, <1>4, RowsAtRows
  <1> HIDE DEF found
  <1>6. \A n \in DOMAIN found : found[n] \in S
    BY <1>5, LenProperties
  <1>7. QED
    BY <1>3, <1>5, <1>6 DEF found, twice, good, over, GoodOnes, GoodCount

\* How many rows are kept by a test on a column that was made from each.
LEMMA MappedCount ==
  ASSUME NEW S, NEW rows \in Seq(S), NEW places \in SUBSET DOMAIN rows, NEW Good,
         NEW made, DOMAIN made = DOMAIN RowsAt(rows, places), IsList(made),
         NEW chosen \in SUBSET DOMAIN made,
         \A i \in DOMAIN made : i \in chosen <=> RowsAt(rows, places)[i] \in Good
  PROVE  Len(RowsAt(made, chosen)) = GoodCount(rows, places, Good)
  <1> DEFINE over == RowsAt(rows, places)
             twice == {i \in DOMAIN over : over[i] \in Good}
             good == {p \in places : rows[p] \in Good}
  <1>1. AsManyGood(over, rows, places, Good)
    BY ChosenTwice
  <1>2. chosen = twice
    OBVIOUS
  <1> HIDE DEF over
  <1>3. Cardinality(twice) = Cardinality(good)
    BY <1>1 DEF AsManyGood
  <1>4. chosen \in SUBSET DOMAIN made
    OBVIOUS
  <1> DEFINE M == ToSet(made)
  <1>5. made \in Seq(M)
    BY DEF IsList
  <1> HIDE DEF M, twice, good
  <1>6. Len(RowsAt(made, chosen)) = Cardinality(chosen)
    BY <1>4, <1>5, RowsAtRows
  <1>7. QED
    BY <1>2, <1>3, <1>6 DEF good, GoodCount

\* The instances that a timeline shows: each starts at a time and is listed under
\* the frame of that time; over the whole trace they are those measured.
InstancesFair(q, list) ==
  /\ \A i \in DOMAIN list : /\ list[i].start \in Int
                            /\ list[i].frame = FrameNumber(q.frames, list[i].start)
  /\ FullRange(q) => Len(list) = Len(Named(q))

\* Events.
LEMMA EventInstances ==
  ASSUME NEW q, ViewQuestion("timeline", q), q.channel = "cpu"
  PROVE  InstancesFair(q, RunTimeline(q))
  <1> DEFINE events == AllEvents(q)
             S == ToSet(events)
             ids == TimerIdsByName(q)
             w == ResolveWindow(q)
             near == {i \in DOMAIN events : events[i].start <= w.end /\ events[i].end >= w.start}
             over == RowsAt(events, near)
             Good == {e \in S : e.timer \in ids}
             twice == {i \in DOMAIN over : over[i].timer \in ids}
             found == RowsAt(over, twice)
             Row(e) == [frame |-> FrameNumber(q.frames, e.start), start |-> e.start,
                        duration |-> Duration(e)]
  <1>1. /\ IsTrace(q) /\ ~q.prefix /\ q.event # NoName /\ RangeQuestion("timeline", q)
        /\ \A t \in DOMAIN q.timelines : \A i \in DOMAIN q.timelines[t] :
             /\ q.timelines[t][i].timer \in DOMAIN q.timers
             /\ q.timelines[t][i].start \in 0 .. q.duration
    BY DEF ViewQuestion
  <1>2. \A t \in DOMAIN q.timelines : \A i \in DOMAIN q.timelines[t] : IsSpan(q.timelines[t][i])
    BY <1>1 DEF RangeQuestion
  <1>3. /\ IsList(events)
        /\ \A n \in DOMAIN events : \E t \in DOMAIN q.timelines : \E j \in DOMAIN q.timelines[t] :
             events[n] = q.timelines[t][j]
    <2>1. Len(q.timelines) \in Nat /\ DOMAIN q.timelines = 1 .. Len(q.timelines)
      BY <1>1, FinitePlaces DEF IsTrace
    <2>2. \A i \in DOMAIN q.timelines : IsList(q.timelines[i])
      BY <1>1 DEF IsTrace
    <2>3. QED
      BY <2>1, <2>2, JoinedIsList DEF AllEvents
  <1>4. RunTimeline(q) = [i \in DOMAIN found |-> Row(found[i])]
    BY DEF RunTimeline, EmitTimingInstances, Overlapping, Selected
  <1>5. \A e \in S : /\ e.timer \in DOMAIN q.timers /\ e.start \in 0 .. q.duration
                     /\ e.end \in Int /\ e.start <= e.end
    <2>1. ASSUME NEW n \in DOMAIN events
          PROVE  /\ events[n].timer \in DOMAIN q.timers /\ events[n].start \in 0 .. q.duration
                 /\ events[n].end \in Int /\ events[n].start <= events[n].end
      <3> HIDE DEF events
      <3>1. PICK t \in DOMAIN q.timelines : \E j \in DOMAIN q.timelines[t] : events[n] = q.timelines[t][j]
        BY <1>3
      <3>2. PICK j \in DOMAIN q.timelines[t] : events[n] = q.timelines[t][j]
        BY <3>1
      <3>3. IsSpan(q.timelines[t][j])
        BY <1>2
      <3>4. QED
        BY <1>1, <3>2, <3>3 DEF IsSpan
    <2> HIDE DEF events
    <2>2. QED
      BY <2>1 DEF ToSet
  <1>6. events \in Seq(S) /\ near \in SUBSET DOMAIN events
    BY <1>3 DEF IsList
  <1>7. \A p \in DOMAIN events : events[p] \in S
    BY DEF ToSet
  <1> HIDE DEF events, S
  <1>8. /\ over \in Seq(S) /\ \A i \in DOMAIN over : over[i] \in S
    <2>1. over \in Seq(S)
      <3> HIDE DEF near
      <3>1. QED
        BY <1>6, RowsAtRows
    <2> HIDE DEF over
    <2>2. QED
      BY <2>1, LenProperties
  <1>9. {i \in DOMAIN over : over[i] \in Good} = twice
    <2> HIDE DEF over
    <2>1. QED
      BY <1>8
  <1>10. /\ found \in Seq(S) /\ \A n \in DOMAIN found : found[n] \in S
         /\ Len(found) = GoodCount(events, near, Good)
    <2> DEFINE some == GoodOnes(events, near, Good)
    <2>1. some = found
      BY <1>9 DEF GoodOnes
    <2>2. /\ some \in Seq(S) /\ \A n \in DOMAIN some : some[n] \in S
          /\ Len(some) = GoodCount(events, near, Good)
      <3> HIDE DEF near, Good
      <3>1. QED
        BY <1>6, GoodOnesKept
    <2> HIDE DEF some, found, near, Good
    <2>3. QED
      BY <2>1, <2>2
  <1> HIDE DEF found
  <1>11. \A i \in DOMAIN found : Row(found[i]).start \in Int
              /\ Row(found[i]).frame = FrameNumber(q.frames, Row(found[i]).start)
    BY <1>5, <1>10
  <1>12. Len([i \in DOMAIN found |-> Row(found[i])]) = Len(found)
    <2> HIDE DEF Row
    <2>1. IsList(found)
      BY <1>10, ListOfRows
    <2>2. QED
      BY <2>1, MappedIsList
  <1> HIDE DEF Row
  <1>13. ASSUME FullRange(q) PROVE Len(found) = Len(Named(q))
    <2> DEFINE counted == {i \in DOMAIN events : Counts(q, "cpu", events[i])}
               kept == RowsAt(events, counted)
               m == [i \in DOMAIN kept |->
                       [key |-> kept[i].timer, name |-> q.timers[kept[i].timer].name,
                        time |-> Duration(kept[i])]]
               Bears == {e \in S : q.timers[e.timer].name = q.event}
               chosen == {i \in DOMAIN m : m[i].name = q.event}
    <2>1. Measured(q, "cpu") = m
      <3>1. {i \in DOMAIN AllEvents(q) :
               /\ q.timers[AllEvents(q)[i].timer].scope = "cpu"
               /\ q.timers[AllEvents(q)[i].timer].name # NoName
               /\ q.prefix => q.timers[AllEvents(q)[i].timer].prefixed} = counted
        BY DEF Counts, events
      <3>2. QED
        BY <3>1 DEF Measured, Selected, events
    <2>2. Named(q) = RowsAt(m, chosen)
      BY <2>1 DEF Named, Selected
    <2>3. counted \in SUBSET DOMAIN events
      OBVIOUS
    <2>4. kept \in Seq(S) /\ \A i \in DOMAIN kept : kept[i] \in S
      <3> HIDE DEF counted
      <3>1. kept \in Seq(S)
        BY <1>6, <2>3, RowsAtRows
      <3> HIDE DEF kept
      <3>2. QED
        BY <3>1, LenProperties
    <2>5. /\ DOMAIN m = DOMAIN kept /\ IsList(m) /\ chosen \in SUBSET DOMAIN m
          /\ \A i \in DOMAIN m : i \in chosen <=> kept[i] \in Bears
      <3> HIDE DEF kept
      <3>1. IsList(kept)
        BY <2>4, ListOfRows
      <3>2. DOMAIN m = DOMAIN kept /\ IsList(m)
        BY <3>1, MappedIsList
      <3>3. chosen \in SUBSET DOMAIN m /\ \A i \in DOMAIN m : i \in chosen <=> kept[i] \in Bears
        BY <2>4
      <3>4. QED
        BY <3>2, <3>3
    <2>6. Len(RowsAt(m, chosen)) = GoodCount(events, counted, Bears)
      <3> HIDE DEF m, chosen, counted, Bears
      <3>1. QED
        BY <1>6, <2>3, <2>5, MappedCount
    <2>7. w.start = 0 /\ w.end = q.duration
      BY <1>1, <1>13, WholeWindow DEF RangeQuestion
    <2>8. near = DOMAIN events
      <3>1. q.duration \in Nat
        BY <1>1 DEF IsTrace
      <3>2. \A p \in DOMAIN events : events[p].start <= q.duration /\ events[p].end >= 0
        BY <1>5, <1>7, <3>1
      <3>3. QED
        BY <2>7, <3>2
    <2>9. {p \in near : events[p] \in Good} = {p \in counted : events[p] \in Bears}
      <3>1. ASSUME NEW p \in DOMAIN events
            PROVE  events[p] \in Good <=> Counts(q, "cpu", events[p]) /\ events[p] \in Bears
        BY <1>1, <1>5, <1>7 DEF TimerIdsByName, Counts
      <3>2. QED
        BY <2>8, <3>1
    <2>10. QED
      BY <1>10, <2>2, <2>6, <2>9 DEF GoodCount
  <1>14. QED
    BY <1>4, <1>11, <1>12, <1>13 DEF InstancesFair

\* As many rows are kept as there are places.
LEMMA KeptLength ==
  ASSUME NEW rows, IsList(rows), NEW places \in SUBSET DOMAIN rows
  PROVE  /\ IsList(RowsAt(rows, places)) /\ Len(RowsAt(rows, places)) = Cardinality(places)
         /\ places = DOMAIN rows => Len(RowsAt(rows, places)) = Len(rows)
         /\ \A n \in DOMAIN RowsAt(rows, places) : \E p \in places : RowsAt(rows, places)[n] = rows[p]
  <1> DEFINE kept == RowsAt(rows, places)
             S == ToSet(rows)
  <1>1. rows \in Seq(S)
    BY DEF IsList
  <1>2. IsList(kept) /\ \A n \in DOMAIN kept : \E p \in places : kept[n] = rows[p]
    BY KeptIsList
  <1> HIDE DEF S
  <1>3. Len(kept) = Cardinality(places)
    BY <1>1, RowsAtRows
  <1> HIDE DEF kept
  <1>4. ASSUME places = DOMAIN rows PROVE Len(kept) = Len(rows)
    <2>1. Len(rows) \in Nat /\ DOMAIN rows = 1 .. Len(rows)
      BY FinitePlaces
    <2>2. PICK n \in Nat : n = Len(rows)
      BY <2>1
    <2>3. Cardinality(1 .. n) = n
      BY FS_Interval
    <2>4. QED
      BY <1>3, <1>4, <2>1, <2>2, <2>3
  <1>5. QED
    BY <1>2, <1>3, <1>4 DEF kept

\* Regions.
LEMMA RegionInstances ==
  ASSUME NEW q, ViewQuestion("timeline", q), q.channel = "region"
  PROVE  InstancesFair(q, RunTimeline(q))
  <1> DEFINE rows == RowsOf(q.groups, LAMBDA g : TRUE)
             S == ToSet(rows)
             w == ResolveWindow(q)
             bear == {i \in DOMAIN rows : rows[i].name = q.event}
             named == RowsAt(rows, bear)
             near == {i \in DOMAIN named : /\ named[i].start <= w.end
                                           /\ named[i].end = Open \/ named[i].end >= w.start}
             inside == RowsAt(named, near)
             Clamped(r) == [start |-> Greater(r.start, w.start),
                            end   |-> IF r.end = Open THEN w.end ELSE Lesser(r.end, w.end)]
             clamped == [i \in DOMAIN inside |-> Clamped(inside[i])]
             right == {i \in DOMAIN clamped : clamped[i].end >= clamped[i].start}
             found == RowsAt(clamped, right)
             Row(r) == [frame |-> FrameNumber(q.frames, r.start), start |-> r.start,
                        duration |-> Duration(r)]
             Fits(r) == /\ r.start \in 0 .. q.duration
                        /\ r.end = Open \/ (r.end \in Int /\ r.start <= r.end)
  <1>1. IsTrace(q) /\ ~q.prefix /\ RangeQuestion("timeline", q)
    BY DEF ViewQuestion
  <1>2. q.duration \in Nat
    BY <1>1 DEF IsTrace
  <1>3. w.start \in Int /\ w.end \in Int
    BY <1>1, <1>2, WindowOfNumbers
  <1>4. RunTimeline(q) = [i \in DOMAIN found |-> Row(found[i])]
    BY DEF RunTimeline, EmitRegionInstances, Selected
  <1>5. IsList(rows) /\ \A n \in DOMAIN rows : Fits(rows[n])
    BY <1>1, RegionsOfTrace
  <1> HIDE DEF rows, Fits, w
  <1>6. /\ IsList(named) /\ Len(named) = Cardinality(bear)
        /\ \A n \in DOMAIN named : Fits(named[n])
    <2>1. bear \in SUBSET DOMAIN rows
      OBVIOUS
    <2> HIDE DEF bear
    <2>2. /\ IsList(named) /\ Len(named) = Cardinality(bear)
          /\ \A n \in DOMAIN named : \E p \in bear : named[n] = rows[p]
      BY <1>5, <2>1, KeptLength
    <2> HIDE DEF named
    <2>3. QED
      BY <1>5, <2>1, <2>2
  <1> HIDE DEF named
  <1>7. /\ IsList(inside) /\ (near = DOMAIN named => Len(inside) = Len(named))
        /\ \A n \in DOMAIN inside : \E p \in near : inside[n] = named[p]
    <2>1. near \in SUBSET DOMAIN named
      OBVIOUS
    <2> HIDE DEF near
    <2>2. QED
      BY <1>6, <2>1, KeptLength
  <1> HIDE DEF inside
  <1>8. \A n \in DOMAIN inside : Fits(inside[n])
    BY <1>6, <1>7
  <1>9. IsList(clamped) /\ Len(clamped) = Len(inside) /\ DOMAIN clamped = DOMAIN inside
    <2> HIDE DEF Clamped
    <2>1. QED
      BY <1>7, MappedIsList
  <1>10. \A n \in DOMAIN clamped : clamped[n].start \in Int
    <2>1. ASSUME NEW n \in DOMAIN inside PROVE Greater(inside[n].start, w.start) \in Int
      BY <1>3, <1>8, <1>2 DEF Fits, Greater
    <2>2. QED
      BY <2>1
  <1>11. /\ IsList(found) /\ (right = DOMAIN clamped => Len(found) = Len(clamped))
         /\ \A n \in DOMAIN found : \E p \in right : found[n] = clamped[p]
    <2>1. right \in SUBSET DOMAIN clamped
      OBVIOUS
    <2> HIDE DEF right, clamped
    <2>2. QED
      BY <1>9, <2>1, KeptLength
  <1> HIDE DEF found
  <1>12. \A n \in DOMAIN found : found[n].start \in Int
    <2> HIDE DEF clamped
    <2>1. QED
      BY <1>10, <1>11
  <1>13. Len([i \in DOMAIN found |-> Row(found[i])]) = Len(found)
    <2> HIDE DEF Row
    <2>1. QED
      BY <1>11, MappedIsList
  <1>14. ASSUME FullRange(q) PROVE Len(found) = Len(Named(q))
    <2>1. w.start = 0 /\ w.end = q.duration
      BY <1>1, <1>14, WholeWindow DEF RangeQuestion, w
    <2>2. near = DOMAIN named
      <3>1. \A n \in DOMAIN named :
              named[n].start <= q.duration /\ (named[n].end = Open \/ named[n].end >= 0)
        BY <1>2, <1>6 DEF Fits
      <3>2. QED
        BY <2>1, <3>1
    <2>3. right = DOMAIN clamped
      <3>1. ASSUME NEW n \in DOMAIN inside PROVE clamped[n].end >= clamped[n].start
        <4> DEFINE end == IF inside[n].end = Open THEN q.duration ELSE Lesser(inside[n].end, q.duration)
        <4>1. clamped[n].end = end /\ clamped[n].start = Greater(inside[n].start, 0)
          BY <2>1
        <4>2. inside[n].start \in 0 .. q.duration
              /\ (inside[n].end = Open \/ (inside[n].end \in Int /\ inside[n].start <= inside[n].end))
          BY <1>8 DEF Fits
        <4> HIDE DEF clamped
        <4>3. end >= Greater(inside[n].start, 0)
          BY <1>2, <4>2 DEF Lesser, Greater
        <4>4. QED
          BY <4>1, <4>3
      <3>2. QED
        BY <1>9, <3>1
    <2>4. Len(found) = Cardinality(bear)
      <3> HIDE DEF right, near, clamped, bear
      <3>1. QED
        BY <1>6, <1>7, <1>9, <1>11, <2>2, <2>3
    <2> DEFINE every == {i \in DOMAIN rows : q.prefix => rows[i].prefixed}
               kept == RowsAt(rows, every)
               m == [i \in DOMAIN kept |->
                       [key |-> kept[i].name, name |-> kept[i].name,
                        time |-> (IF kept[i].end = Open THEN q.duration ELSE kept[i].end)
                                 - kept[i].start]]
               Bears == {r \in S : r.name = q.event}
               chosen == {i \in DOMAIN m : m[i].name = q.event}
    <2>5. Measured(q, "region") = m
      BY DEF Measured, Selected, rows
    <2>6. Named(q) = RowsAt(m, chosen)
      BY <2>5 DEF Named, Selected
    <2>7. every \in SUBSET DOMAIN rows /\ rows \in Seq(S) /\ \A i \in DOMAIN rows : rows[i] \in S
      BY <1>5 DEF IsList, ToSet
    <2>8. kept \in Seq(S) /\ \A i \in DOMAIN kept : kept[i] \in S
      <3> HIDE DEF every, S
      <3>1. kept \in Seq(S)
        BY <2>7, RowsAtRows
      <3> HIDE DEF kept
      <3>2. QED
        BY <3>1, LenProperties
    <2> HIDE DEF S
    <2>9. /\ DOMAIN m = DOMAIN kept /\ IsList(m) /\ chosen \in SUBSET DOMAIN m
          /\ \A i \in DOMAIN m : i \in chosen <=> kept[i] \in Bears
      <3> HIDE DEF kept
      <3>1. IsList(kept)
        BY <2>8, ListOfRows
      <3>2. DOMAIN m = DOMAIN kept /\ IsList(m)
        BY <3>1, MappedIsList
      <3>3. chosen \in SUBSET DOMAIN m /\ \A i \in DOMAIN m : i \in chosen <=> kept[i] \in Bears
        BY <2>8
      <3>4. QED
        BY <3>2, <3>3
    <2>10. Len(RowsAt(m, chosen)) = GoodCount(rows, every, Bears)
      <3> HIDE DEF m, chosen, every, Bears
      <3>1. QED
        BY <2>7, <2>9, MappedCount
    <2>11. {p \in every : rows[p] \in Bears} = bear
      BY <1>1, <2>7
    <2>12. QED
      BY <2>4, <2>6, <2>10, <2>11 DEF GoodCount
  <1>15. \A i \in DOMAIN found : Row(found[i]).start \in Int
              /\ Row(found[i]).frame = FrameNumber(q.frames, Row(found[i]).start)
    BY <1>12
  <1> HIDE DEF Row
  <1>16. QED
    BY <1>4, <1>13, <1>14, <1>15 DEF InstancesFair

\* So the instances of a name are as many as the channel measures, each under the
\* frame that it began in.
LEMMA TimelineAgrees ==
  ASSUME NEW q, ViewQuestion("timeline", q), q.channel # "gpu", NEW list, list = RunTimeline(q)
  PROVE  /\ FullRange(q) => Len(list) = Len(Named(q))
         /\ \A i \in DOMAIN list, f \in DOMAIN q.frames :
              /\ q.frames[f].start <= list[i].start /\ list[i].start < q.frames[f].end
              => list[i].frame = f - 1
  <1>1. InstancesFair(q, list)
    BY EventInstances, RegionInstances DEF ViewQuestion, EventChannels
  <1>2. /\ Numbered(q.frames) /\ \A i \in DOMAIN q.frames : IsSpan(q.frames[i])
        /\ \A i \in DOMAIN q.frames : i + 1 \in DOMAIN q.frames => q.frames[i].end <= q.frames[i + 1].start
    BY DEF ViewQuestion, RangeQuestion
  <1>3. ASSUME NEW i \in DOMAIN list, NEW f \in DOMAIN q.frames,
               q.frames[f].start <= list[i].start, list[i].start < q.frames[f].end
        PROVE  list[i].frame = f - 1
    <2>1. list[i].start \in Int /\ list[i].frame = FrameNumber(q.frames, list[i].start)
      BY <1>1 DEF InstancesFair
    <2>2. FrameNumber(q.frames, list[i].start) = f - 1
      BY <1>2, <1>3, <2>1, FrameOfTime
    <2>3. QED
      BY <2>1, <2>2
  <1>4. QED
    BY <1>1, <1>3 DEF InstancesFair

\* The largest first, from each row to the next, is the largest first.
LEMMA Falling ==
  ASSUME NEW n \in Nat, NEW f \in [1 .. n -> Int], \A i \in 1 .. n - 1 : f[i] >= f[i + 1]
  PROVE  \A i, j \in 1 .. n : i < j => f[i] >= f[j]
  <1> SUFFICES ASSUME NEW i \in 1 .. n, NEW j \in 1 .. n, i < j, ~(f[i] >= f[j]) PROVE FALSE
    OBVIOUS
  <1> DEFINE T == {k \in 1 .. n : i < k /\ ~(f[i] >= f[k])}
  <1>1. T \in SUBSET Nat /\ IsFiniteSet(T) /\ T # {}
    <2>1. IsFiniteSet(1 .. n)
      BY FS_Interval
    <2>2. IsFiniteSet(T)
      BY <2>1, FS_Subset
    <2>3. j \in T /\ \A k \in T : k \in Nat
      OBVIOUS
    <2> HIDE DEF T
    <2>4. QED
      BY <2>2, <2>3
  <1>2. PICK k \in T : \A m \in T : k <= m
    BY <1>1, Least
  <1>3. CASE k = i + 1
    BY <1>2, <1>3
  <1>4. CASE k # i + 1
    <2>1. k - 1 \in 1 .. n /\ i < k - 1 /\ k - 1 \notin T
      BY <1>2, <1>4
    <2>2. f[i] >= f[k - 1]
      BY <2>1
    <2>3. f[k - 1] >= f[k]
      <3>1. k - 1 \in 1 .. n - 1 /\ (k - 1) + 1 = k
        BY <1>2, <2>1
      <3>2. QED
        BY <3>1
    <2>4. f[i] \in Int /\ f[k - 1] \in Int /\ f[k] \in Int
      BY <1>2, <2>1
    <2>5. f[i] >= f[k]
      BY <2>2, <2>3, <2>4
    <2>6. QED
      BY <1>2, <2>5
  <1>5. QED
    BY <1>3, <1>4

\* Callers and callees come with the largest first.
LEMMA ButterflyFalls ==
  ASSUME NEW q, ViewQuestion("butterfly", q), NEW list \in RunButterfly(q)
  PROVE  \A i, j \in DOMAIN list : i < j => list[i].total >= list[j].total
  <1>1. CASE TimerIdsByName(q) = {}
    BY <1>1 DEF RunButterfly
  <1>2. CASE TimerIdsByName(q) # {}
    <2> DEFINE ids == TimerIdsByName(q)
               rows == q.children[Min(ids)]
               k == Lesser(q.limit, Cardinality(rows))
    <2>1. q.limit \in Nat \ {0} /\ IsList(q.timers)
          /\ \A t \in DOMAIN q.timers : IsFiniteSet(q.children[t]) /\ \A c \in q.children[t] : c.total \in Int
      BY DEF ViewQuestion
    <2>2. Min(ids) \in DOMAIN q.timers
      <3>1. DOMAIN q.timers = 1 .. Len(q.timers) /\ Len(q.timers) \in Nat /\ IsFiniteSet(DOMAIN q.timers)
        BY <2>1, FinitePlaces
      <3>2. ids \in SUBSET Nat /\ IsFiniteSet(ids) /\ ids \subseteq DOMAIN q.timers
        BY <3>1, FS_Subset DEF TimerIdsByName
      <3>3. Min(ids) \in ids
        BY <1>2, <3>2, LeastIsMin
      <3>4. QED
        BY <3>2, <3>3
    <2>3. IsFiniteSet(rows) /\ \A c \in rows : c.total \in Int
      BY <2>1, <2>2
    <2>4. PICK top : /\ top \in TopRows(rows, RowTotal, q.limit)
                     /\ list = Selected(top, LAMBDA child : child.name # NoName)
      BY <1>2 DEF RunButterfly
    <2> HIDE DEF rows, ids
    <2>5. k \in Nat
      BY <2>1, <2>3, FS_CardinalityType DEF Lesser
    <2>6. top \in [1 .. k -> rows] /\ \A i \in 1 .. k - 1 : top[i].total >= top[i + 1].total
      BY <2>4 DEF TopRows, RowTotal
    <2> HIDE DEF k
    <2>7. top \in Seq(rows) /\ Len(top) = k
      BY <2>5, <2>6, SeqFromFunction
    <2>8. \A i, j \in 1 .. k : i < j => top[i].total >= top[j].total
      <3> DEFINE f == [i \in 1 .. k |-> top[i].total]
      <3>1. f \in [1 .. k -> Int] /\ \A i \in 1 .. k : f[i] = top[i].total
        BY <2>3, <2>6
      <3>2. \A i \in 1 .. k - 1 : f[i] >= f[i + 1]
        <4>1. \A i \in 1 .. k - 1 : i \in 1 .. k /\ i + 1 \in 1 .. k
          BY <2>5
        <4> HIDE DEF f
        <4>2. QED
          BY <2>6, <3>1, <4>1
      <3> HIDE DEF f
      <3>3. \A i, j \in 1 .. k : i < j => f[i] >= f[j]
        BY <2>5, <3>1, <3>2, Falling
      <3>4. QED
        BY <3>1, <3>3
    <2> DEFINE places == {i \in DOMAIN top : top[i].name # NoName}
    <2>9. list = RowsAt(top, places) /\ places \in SUBSET DOMAIN top
      BY <2>4 DEF Selected
    <2> HIDE DEF places
    <2>10. /\ list \in Seq(rows) /\ \E h : Chosen(list, h, top, places)
      BY <2>7, <2>9, RowsAtRows
    <2>11. PICK h : Chosen(list, h, top, places)
      BY <2>10
    <2>12. DOMAIN list = 1 .. Len(list) /\ DOMAIN top = 1 .. k
      BY <2>7, <2>10, LenProperties
    <2>13. QED
      BY <2>8, <2>9, <2>11, <2>12 DEF Chosen
  <1>3. QED
    BY <1>1, <1>2

\* A task that is listed is found by its number.
LEMMA DrillAgrees ==
  ASSUME NEW q, ViewQuestion("task_drill", q), NEW found, found = RunTaskDrill(q),
         NEW task \in ToSet(RunTaskList(q).events), task.id = q.taskId
  PROVE  found.found /\ found.task = task
  <1> DEFINE w == ResolveWindow(q)
             S == ToSet(q.rows)
             near == {i \in DOMAIN q.rows : q.rows[i].start <= w.end /\ q.rows[i].end >= w.start}
             over == RowsAt(q.rows, near)
             numbered == {i \in DOMAIN q.rows : q.rows[i].id = q.taskId}
             tasks == RowsAt(q.rows, numbered)
  <1>1. Numbered(q.rows) /\ q.limit \in Nat \ {0}
    BY DEF ViewQuestion
  <1>2. near \in SUBSET DOMAIN q.rows /\ numbered \in SUBSET DOMAIN q.rows
    OBVIOUS
  <1>3. RunTaskList(q).events = FirstOf(over, q.limit)
    BY DEF RunTaskList, Listing, Overlapping, Selected
  <1>4. tasks = TaskNumbered(q, q.taskId)
    BY DEF TaskNumbered, Selected
  <1>5. task \in {q.rows[i] : i \in DOMAIN q.rows}
    <2> HIDE DEF near
    <2>1. Numbered(over) /\ \A n \in DOMAIN over : \E p \in near : over[n] = q.rows[p]
      BY <1>1, <1>2, KeptNumbered
    <2> HIDE DEF over
    <2>2. PICK n \in DOMAIN FirstOf(over, q.limit) : task = FirstOf(over, q.limit)[n]
      BY <1>3 DEF ToSet
    <2> DEFINE T == ToSet(over)
    <2>3. over \in Seq(T)
      BY <2>1 DEF Numbered
    <2> HIDE DEF T
    <2>4. n \in DOMAIN over /\ task = over[n]
      BY <1>1, <2>2, <2>3, FirstRows, LenProperties
    <2>5. QED
      BY <1>2, <2>1, <2>4
  <1>6. PICK p \in DOMAIN q.rows : task = q.rows[p]
    BY <1>5
  <1>7. p \in numbered
    BY <1>6
  <1> HIDE DEF numbered
  <1>8. /\ Numbered(tasks)
        /\ \A n \in DOMAIN tasks : \E r \in numbered : tasks[n] = q.rows[r]
        /\ \A r \in numbered : \E n \in DOMAIN tasks : tasks[n] = q.rows[r]
    BY <1>1, <1>2, KeptNumbered
  <1> HIDE DEF tasks
  <1>9. DOMAIN tasks = 1 .. Len(tasks) /\ Len(tasks) \in Nat
    BY <1>8, NumbersDiffer
  <1>10. 1 \in DOMAIN tasks
    BY <1>7, <1>8, <1>9
  <1>11. tasks[1] = task
    <2>1. PICK r \in numbered : tasks[1] = q.rows[r]
      BY <1>8, <1>10
    <2>2. q.rows[r].id = q.rows[p].id /\ r \in DOMAIN q.rows
      BY <1>6, <2>1 DEF numbered
    <2>3. r = p
      BY <1>1, <2>2, NumbersDiffer
    <2>4. QED
      BY <1>6, <2>1, <2>3
  <1>12. tasks # <<>> /\ Head(tasks) = task
    <2>1. tasks # <<>>
      BY <1>10
    <2> DEFINE T == ToSet(tasks)
    <2>2. tasks \in Seq(T)
      BY <1>8 DEF Numbered
    <2> HIDE DEF T
    <2>3. Head(tasks) = tasks[1]
      BY <2>1, <2>2
    <2>4. QED
      BY <1>11, <2>1, <2>3
  <1>13. found = [found |-> TRUE, task |-> Head(tasks)]
    BY <1>4, <1>12 DEF RunTaskDrill
  <1>14. QED
    BY <1>12, <1>13

\* A callstack keeps the depth of each frame.
LEMMA DepthsKept ==
  ASSUME NEW q, ViewQuestion("callstack", q), NEW found, found = RunCallstack(q)
  PROVE  /\ found.found <=> found.count > 0
         /\ {f.depth + 1 : f \in ToSet(found.frames)} = {d \in DOMAIN q.stack : q.stack[d] # Missing}
         /\ \A f \in ToSet(found.frames) : q.stack[f.depth + 1] = f.frame
  <1> DEFINE stack == q.stack
             numbered == [i \in DOMAIN stack |-> [depth |-> i - 1, frame |-> stack[i]]]
             known == {i \in DOMAIN numbered : numbered[i].frame # Missing}
             frames == RowsAt(numbered, known)
             some == stack # <<>>
  <1>1. IsList(stack) /\ Len(stack) \in Nat /\ DOMAIN stack = 1 .. Len(stack)
    BY FinitePlaces DEF ViewQuestion
  <1>2. found = [found |-> some, count |-> Len(stack), frames |-> frames]
    BY DEF RunCallstack, Selected
  <1>3. some <=> Len(stack) > 0
    <2> DEFINE T == ToSet(stack)
    <2>1. stack \in Seq(T)
      BY <1>1 DEF IsList
    <2> HIDE DEF T, stack
    <2>2. QED
      BY <2>1
  <1> HIDE DEF stack, some
  <1>4. IsList(numbered) /\ DOMAIN numbered = DOMAIN stack
    BY <1>1, MappedIsList
  <1>5. known = {d \in DOMAIN stack : stack[d] # Missing}
    BY <1>4
  <1>6. /\ \A n \in DOMAIN frames : \E p \in known : frames[n] = numbered[p]
        /\ \A p \in known : \E n \in DOMAIN frames : frames[n] = numbered[p]
    <2>1. known \in SUBSET DOMAIN numbered
      OBVIOUS
    <2> HIDE DEF known, numbered
    <2>2. QED
      BY <1>4, <2>1, KeptIsList
  <1> HIDE DEF frames
  <1>7. \A p \in known : /\ numbered[p].depth + 1 = p /\ numbered[p].frame = stack[p]
    BY <1>1, <1>4
  <1> HIDE DEF numbered
  <1>8. /\ \A f \in ToSet(frames) : f.depth + 1 \in known /\ stack[f.depth + 1] = f.frame
        /\ \A p \in known : \E f \in ToSet(frames) : f.depth + 1 = p
    BY <1>6, <1>7 DEF ToSet
  <1>9. {f.depth + 1 : f \in ToSet(frames)} = known
    BY <1>8
  <1>10. found.count = Len(stack) /\ found.frames = frames
    BY <1>2
  <1>11. found.found <=> found.count > 0
    <2>1. found.found = some
      BY <1>2
    <2>2. QED
      BY <1>3, <1>10, <2>1, Zenon
  <1>12. QED
    BY <1>5, <1>8, <1>9, <1>10, <1>11 DEF stack

\* All rows of a list, in their order, are the list.
LEMMA AllRowsKept ==
  ASSUME NEW rows, IsList(rows)
  PROVE  RowsAt(rows, DOMAIN rows) = rows
  <1> DEFINE S == ToSet(rows)
  <1>1. PICK n \in Nat : n = Len(rows) /\ DOMAIN rows = 1 .. n
    BY FinitePlaces
  <1>2. rows \in Seq(S)
    BY DEF IsList
  <1> HIDE DEF S
  <1>3. CASE n = 0
    <2>1. DOMAIN rows = {} /\ rows = <<>>
      BY <1>1, <1>2, <1>3
    <2> DEFINE kept == RowsAt(rows, DOMAIN rows)
    <2>2. kept \in Seq(S) /\ Len(kept) <= Len(rows)
      BY <1>2, RowsAtRows
    <2> HIDE DEF kept
    <2>3. kept = <<>>
      BY <1>1, <1>3, <2>2
    <2>4. QED
      BY <2>1, <2>3 DEF kept
  <1>4. CASE n # 0
    <2>1. RowsAt(rows, 0 + 1 .. n) = SubSeq(rows, 0 + 1, n)
      BY <1>1, <1>2, <1>4, RowsBetween
    <2>2. SubSeq(rows, 1, n) = rows
      BY <1>1, <1>2
    <2>3. QED
      BY <1>1, <2>1, <2>2
  <1>5. QED
    BY <1>3, <1>4

\* Places that grow and leave out none are the places themselves.
Enumerates(v, N, L) ==
  /\ v \in [1 .. N -> 1 .. L]
  /\ \A m, n \in 1 .. N : m < n => v[m] < v[n]
  /\ \A j \in 1 .. L : \E n \in 1 .. N : v[n] = j

\* So every place is where it was.
LEMMA NoneLeftOut ==
  ASSUME NEW N \in Nat, NEW L \in Nat, NEW v, Enumerates(v, N, L)
  PROVE  N = L /\ \A n \in 1 .. N : v[n] = n
  <1> USE DEF Enumerates
  <1>1. \A n \in 1 .. N : v[n] = n
    <2> SUFFICES ASSUME NEW i \in 1 .. N, v[i] # i PROVE FALSE
      OBVIOUS
    <2> DEFINE T == {k \in 1 .. N : v[k] # k}
    <2>1. T \in SUBSET Nat /\ i \in T
      OBVIOUS
    <2>2. IsFiniteSet(T)
      <3>1. IsFiniteSet(1 .. N)
        BY FS_Interval
      <3>2. QED
        BY <3>1, FS_Subset
    <2> HIDE DEF T
    <2>3. PICK k \in T : \A m \in T : k <= m
      BY <2>1, <2>2, Least
    <2>4. k \in 1 .. N /\ v[k] # k /\ v[k] \in 1 .. L /\ \A m \in 1 .. k - 1 : v[m] = m
      BY <2>3 DEF T
    <2>5. v[k] > k
      <3>1. CASE k = 1
        BY <2>4, <3>1
      <3>2. CASE k > 1
        <4>1. k - 1 \in 1 .. k - 1 /\ k - 1 \in 1 .. N /\ k - 1 < k
          BY <2>4, <3>2
        <4>2. v[k - 1] = k - 1 /\ v[k - 1] < v[k]
          BY <2>4, <4>1
        <4>3. QED
          BY <2>4, <4>2
      <3>3. QED
        BY <2>4, <3>1, <3>2
    <2>6. PICK m \in 1 .. N : v[m] = k
      BY <2>4, <2>5
    <2>7. CASE m < k
      BY <2>4, <2>6, <2>7
    <2>8. CASE m = k
      BY <2>4, <2>6, <2>8
    <2>9. CASE m > k
      <3>1. v[k] < v[m]
        BY <2>4, <2>9
      <3>2. QED
        BY <2>4, <2>5, <2>6, <3>1
    <2>10. QED
      BY <2>4, <2>7, <2>8, <2>9
  <1>2. N <= L
    BY <1>1
  <1>3. L <= N
    <2>1. CASE L = 0
      BY <2>1
    <2>2. CASE L > 0
      <3>1. PICK n \in 1 .. N : v[n] = L
        BY <2>2
      <3>2. QED
        BY <1>1, <3>1
    <2>3. QED
      BY <2>1, <2>2
  <1>4. QED
    BY <1>1, <1>2, <1>3

\* One list after no other is that list.
LEMMA JoinedAlone ==
  ASSUME NEW lists, DOMAIN lists = {1}, Len(lists) = 1, NEW rows, IsList(rows), lists[1] = rows
  PROVE  Joined(lists) = rows
  <1> DEFINE all == Joined(lists)
             S == ToSet(rows)
  <1>1. Len(rows) \in Nat /\ DOMAIN rows = 1 .. Len(rows)
    BY FinitePlaces
  <1>2. Lists(lists)
    BY <1>1 DEF Lists
  <1>3. PICK N \in Nat : \E u \in [1 .. N -> Nat] : \E v \in [1 .. N -> Nat] :
          all = [n \in 1 .. N |-> lists[u[n]][v[n]]] /\ Visits(lists, N, u, v)
    BY <1>2, JoinedShape
  <1> HIDE DEF all
  <1>4. PICK u \in [1 .. N -> Nat] : \E v \in [1 .. N -> Nat] :
          all = [n \in 1 .. N |-> lists[u[n]][v[n]]] /\ Visits(lists, N, u, v)
    BY <1>3
  <1>5. PICK v \in [1 .. N -> Nat] :
          all = [n \in 1 .. N |-> lists[u[n]][v[n]]] /\ Visits(lists, N, u, v)
    BY <1>4
  <1>6. /\ \A n \in 1 .. N : u[n] = 1 /\ v[n] \in DOMAIN rows /\ all[n] = rows[v[n]]
        /\ \A m, n \in 1 .. N : m < n => v[m] < v[n]
        /\ \A j \in DOMAIN rows : \E n \in 1 .. N : v[n] = j
    BY <1>5 DEF Visits
  <1>7. PICK L \in Nat : L = Len(rows) /\ DOMAIN rows = 1 .. L
    BY <1>1
  <1>8. N = L /\ \A n \in 1 .. N : v[n] = n
    <2>1. v \in [1 .. N -> 1 .. L]
      BY <1>6, <1>7
    <2>2. \A m, n \in 1 .. N : m < n => v[m] < v[n]
      BY <1>6
    <2>3. \A j \in 1 .. L : \E n \in 1 .. N : v[n] = j
      BY <1>6, <1>7
    <2>4. Enumerates(v, N, L)
      BY <2>1, <2>2, <2>3 DEF Enumerates
    <2>5. QED
      BY <2>4, NoneLeftOut
  <1>9. all = rows
    <2>1. rows \in Seq(S)
      BY DEF IsList
    <2>2. rows = [n \in 1 .. N |-> rows[n]]
      BY <1>7, <1>8, <2>1
    <2>3. all = [n \in 1 .. N |-> rows[n]]
      BY <1>5, <1>6, <1>8
    <2>4. QED
      BY <2>2, <2>3
  <1>10. QED
    BY <1>9 DEF all

\* The rows of one group alone.
LEMMA RowsOfOne ==
  ASSUME NEW groups, IsList(groups), NEW i \in DOMAIN groups, IsList(groups[i].rows)
  PROVE  RowsOfGroups(groups, {i}) = groups[i].rows
  <1> DEFINE wanted == RowsAt(groups, {i})
             lists == [j \in DOMAIN wanted |-> wanted[j].rows]
  <1>1. IsList(wanted) /\ Len(wanted) = 1 /\ \A n \in DOMAIN wanted : wanted[n] = groups[i]
    <2> DEFINE one == {i}
    <2>1. one \in SUBSET DOMAIN groups /\ \A p \in one : p = i
      OBVIOUS
    <2>2. Cardinality(one) = 1
      BY FS_Singleton
    <2>3. wanted = RowsAt(groups, one)
      OBVIOUS
    <2> HIDE DEF one, wanted
    <2>4. /\ IsList(RowsAt(groups, one)) /\ Len(RowsAt(groups, one)) = 1
          /\ \A n \in DOMAIN RowsAt(groups, one) :
               \E p \in one : RowsAt(groups, one)[n] = groups[p]
      BY <2>1, <2>2, KeptLength
    <2>5. QED
      BY <2>1, <2>3, <2>4, Zenon
  <1> HIDE DEF wanted
  <1>2. IsList(lists) /\ Len(lists) = 1 /\ DOMAIN lists = DOMAIN wanted
    BY <1>1, MappedIsList
  <1>3. DOMAIN wanted = {1}
    BY <1>1, FinitePlaces
  <1>4. lists[1] = groups[i].rows
    BY <1>1, <1>3
  <1> HIDE DEF lists
  <1>5. Joined(lists) = groups[i].rows
    BY <1>2, <1>3, <1>4, JoinedAlone
  <1>6. QED
    BY <1>5 DEF RowsOfGroups, lists, wanted

\* All connections are those of each game instance, one after the other.
LEMMA ConnectionsAgree ==
  ASSUME NEW q, ViewQuestion("connections", q), q.group < 0, NEW list, list = EmitConnections(q)
  PROVE  LET Of(id) == EmitConnections([groups |-> q.groups, group |-> id]).events
             ids == EmitInstances(q).events
         IN  list.events = Joined([i \in DOMAIN ids |-> Of(ids[i])])
  <1> DEFINE groups == q.groups
             Of(id) == EmitConnections([groups |-> groups, group |-> id]).events
             ids == EmitInstances(q).events
  <1>1. /\ IsList(groups) /\ \A g \in DOMAIN groups : IsList(groups[g].rows) /\ groups[g].id \in Nat
        /\ \A g, h \in DOMAIN groups : g # h => groups[g].id # groups[h].id
    BY DEF ViewQuestion
  <1>2. ids = [i \in DOMAIN groups |-> groups[i].id]
    BY DEF EmitInstances, Catalogue
  <1>3. ASSUME NEW i \in DOMAIN groups PROVE Of(groups[i].id) = groups[i].rows
    <2> DEFINE id == groups[i].id
               places == {g \in DOMAIN groups : id < 0 \/ id = groups[g].id}
    <2>1. Of(id) = RowsOfGroups(groups, places)
      BY DEF EmitConnections, Catalogue, RowsOf, Selected, GroupChosen, RowsOfGroups
    <2>2. places = {i}
      <3>1. id \in Nat
        BY <1>1
      <3>2. \A g \in DOMAIN groups : id = groups[g].id <=> g = i
        BY <1>1
      <3> HIDE DEF id, groups
      <3>3. QED
        BY <3>1, <3>2
    <2>3. RowsOfGroups(groups, {i}) = groups[i].rows
      BY <1>1, RowsOfOne
    <2>4. QED
      BY <2>1, <2>2, <2>3
  <1>4. list.events = Joined([i \in DOMAIN groups |-> groups[i].rows])
    <2> DEFINE places == {g \in DOMAIN groups : q.group < 0 \/ q.group = groups[g].id}
               wanted == RowsAt(groups, places)
    <2>1. list.events = Joined([i \in DOMAIN wanted |-> wanted[i].rows])
      BY DEF EmitConnections, Catalogue, RowsOf, Selected, GroupChosen
    <2>2. places = DOMAIN groups
      OBVIOUS
    <2>3. RowsAt(groups, DOMAIN groups) = groups
      BY <1>1, AllRowsKept
    <2>4. wanted = groups
      BY <2>2, <2>3
    <2>5. QED
      BY <2>1, <2>4
  <1> HIDE DEF groups, Of, ids
  <1>5. [i \in DOMAIN ids |-> Of(ids[i])] = [i \in DOMAIN groups |-> groups[i].rows]
    BY <1>2, <1>3
  <1>6. list.events = Joined([i \in DOMAIN ids |-> Of(ids[i])])
    BY <1>4, <1>5
  <1>7. QED
    BY <1>6 DEF groups, Of, ids

\* No heap crowds out a root.
LEMMA RootsShown ==
  ASSUME NEW q, ViewQuestion("heaps", q), Len(q.roots) <= MaxHeaps, NEW list, list = EmitHeapTree(q)
  PROVE  {h.heap : h \in {h \in ToSet(list.events) : h.isRoot}} = ToSet(q.roots)
  <1> DEFINE roots == [i \in DOMAIN q.roots |-> [heap |-> q.roots[i], isRoot |-> TRUE]]
             heaps == [i \in DOMAIN q.heaps |-> [heap |-> q.heaps[i], isRoot |-> FALSE]]
             all == roots \o heaps
             shown == FirstOf(all, MaxHeaps)
  <1>1. IsList(q.roots) /\ IsList(q.heaps)
    BY DEF ViewQuestion
  <1>2. list.events = shown
    BY DEF EmitHeapTree, Catalogue
  <1>3. IsList(roots) /\ Len(roots) = Len(q.roots) /\ DOMAIN roots = DOMAIN q.roots
    BY <1>1, MappedIsList
  <1>4. IsList(heaps) /\ DOMAIN heaps = DOMAIN q.heaps
    BY <1>1, MappedIsList
  <1>5. \A i \in DOMAIN roots : roots[i].isRoot /\ roots[i].heap = q.roots[i]
    OBVIOUS
  <1>6. \A i \in DOMAIN heaps : ~heaps[i].isRoot
    OBVIOUS
  <1> DEFINE S == ToSet(roots) \cup ToSet(heaps)
  <1> HIDE DEF roots, heaps
  <1>7. roots \in Seq(S) /\ heaps \in Seq(S)
    <2>1. PICK n \in Nat : DOMAIN roots = 1 .. n
      BY <1>3, FinitePlaces
    <2>2. PICK k \in Nat : DOMAIN heaps = 1 .. k
      BY <1>4, FinitePlaces
    <2>3. roots = [i \in 1 .. n |-> roots[i]] /\ heaps = [i \in 1 .. k |-> heaps[i]]
      BY <2>1, <2>2 DEF roots, heaps
    <2>4. roots \in [1 .. n -> S] /\ heaps \in [1 .. k -> S]
      BY <2>1, <2>2, <2>3 DEF S, ToSet
    <2>5. QED
      BY <2>4, SeqFromFunction
  <1> HIDE DEF S
  <1>8. /\ all \in Seq(S) /\ Len(all) = Len(roots) + Len(heaps)
        /\ Len(roots) \in Nat /\ Len(heaps) \in Nat
        /\ \A i \in 1 .. Len(all) : all[i] = IF i <= Len(roots) THEN roots[i] ELSE heaps[i - Len(roots)]
    BY <1>7
  <1> HIDE DEF all
  <1>9. /\ DOMAIN shown = 1 .. Len(shown) /\ Len(shown) = Lesser(MaxHeaps, Len(all))
        /\ \A i \in 1 .. Len(shown) : shown[i] = all[i]
    BY <1>8, HeapsAssumption, FirstRows
  <1> HIDE DEF shown
  <1>10. Len(roots) <= Len(shown) /\ Len(shown) <= Len(all)
    BY <1>3, <1>8, <1>9, HeapsAssumption DEF Lesser
  <1>11. DOMAIN roots = 1 .. Len(roots) /\ DOMAIN heaps = 1 .. Len(heaps)
    BY <1>7, LenProperties
  <1>12. ASSUME NEW i \in 1 .. Len(shown), shown[i].isRoot
         PROVE  i \in DOMAIN roots /\ shown[i] = roots[i]
    <2>1. CASE i <= Len(roots)
      BY <1>8, <1>9, <1>10, <1>11, <2>1
    <2>2. CASE i > Len(roots)
      <3>1. i - Len(roots) \in DOMAIN heaps /\ shown[i] = heaps[i - Len(roots)]
        BY <1>8, <1>9, <1>10, <1>11, <2>2
      <3>2. QED
        BY <1>6, <1>12, <3>1
    <2>3. QED
      BY <1>8, <2>1, <2>2
  <1>13. ASSUME NEW i \in DOMAIN roots
         PROVE  i \in 1 .. Len(shown) /\ shown[i] = roots[i]
    BY <1>8, <1>9, <1>10, <1>11
  <1>14. ToSet(shown) = {shown[i] : i \in 1 .. Len(shown)} /\ ToSet(q.roots) = {q.roots[i] : i \in DOMAIN roots}
    BY <1>3, <1>9 DEF ToSet
  <1>15. ASSUME NEW r PROVE r \in ToSet(q.roots) <=> \E h \in ToSet(shown) : h.isRoot /\ r = h.heap
    BY <1>5, <1>12, <1>13, <1>14
  <1>16. QED
    BY <1>2, <1>15

-----------------------------------------------------------------------------
(* Every answer of a listing mode, of one with a frame range, of a          *)
(* comparison, and of a view.                                              *)
\* The answer of such a mode, once there is one.
AnswerIs ==
  /\ mode = "logs"        => answer = RunLogs(question)
  /\ mode = "bookmarks"   => answer = RunBookmarks(question)
  /\ mode = "regions"     => answer = RunRegions(question)
  /\ mode = "fences"      => answer = RunGpuFences(question)
  /\ mode = "objects"     => answer = EmitObjects(question)
  /\ mode = "tasks"       => answer = RunTaskList(question)
  /\ mode = "assets"      => answer = RunAsset(question)
  /\ mode = "packets"     => answer = EmitPackets(question)
  /\ mode = "crossings"   => answer = EmitFramesWhereCounterExceeds(question)
  /\ mode = "inside"      => answer = EmitEventsInsideRegion(question)
  /\ mode = "slow_logs"   => answer = EmitLogsAroundSlowFrames(question)
  /\ mode = "timeline"    => answer = RunTimeline(question)
  /\ mode = "frames"      => answer = RunFrames(question)
  /\ mode = "compare"     => answer \in RunCompare(question)
  /\ mode = "butterfly"   => answer \in RunButterfly(question)
  /\ mode = "task_drill"  => answer = RunTaskDrill(question)
  /\ mode = "callstack"   => answer = RunCallstack(question)
  /\ mode = "connections" => answer = EmitConnections(question)
  /\ mode = "heaps"       => answer = EmitHeapTree(question)

AnswerInv ==
  /\ mode \in AllListings \cup RangeModes \cup ViewModes \cup {"compare"} =>
       mode \in DOMAIN Questions /\ question \in Questions[mode]
  /\ answer # NoAnswer => AnswerIs

\* A question is asked once, and answered by the run of its mode alone.
LEMMA OneAnswer ==
  ASSUME AnswerNext
  PROVE  mode' = mode /\ question' = question /\ AnswerIs'
  <1>1. CASE Logs
    BY <1>1 DEF Logs, Answer, AnswerIs
  <1>2. CASE Bookmarks
    BY <1>2 DEF Bookmarks, Answer, AnswerIs
  <1>3. CASE Regions
    BY <1>3 DEF Regions, Answer, AnswerIs
  <1>4. CASE Fences
    BY <1>4 DEF Fences, Answer, AnswerIs
  <1>5. CASE Objects
    BY <1>5 DEF Objects, Answer, AnswerIs
  <1>6. CASE Tasks
    BY <1>6 DEF Tasks, Answer, AnswerIs
  <1>7. CASE Assets
    BY <1>7 DEF Assets, Answer, AnswerIs
  <1>8. CASE Packets
    BY <1>8 DEF Packets, Answer, AnswerIs
  <1>9. CASE Crossings
    BY <1>9 DEF Crossings, Answer, AnswerIs
  <1>10. CASE InsideRegion
    BY <1>10 DEF InsideRegion, Answer, AnswerIs
  <1>11. CASE SlowLogs
    BY <1>11 DEF SlowLogs, Answer, AnswerIs
  <1>12. CASE Frames
    BY <1>12 DEF Frames, Answer, AnswerIs
  <1>13. CASE Timeline
    BY <1>13 DEF Timeline, Answer, AnswerIs
  <1>14. CASE Compare
    BY <1>14 DEF Compare, Answer, AnswerIs
  <1>15. CASE Butterfly
    BY <1>15 DEF Butterfly, Answer, AnswerIs
  <1>16. CASE TaskDrill
    BY <1>16 DEF TaskDrill, Answer, AnswerIs
  <1>17. CASE Callstack
    BY <1>17 DEF Callstack, Answer, AnswerIs
  <1>18. CASE Connections
    BY <1>18 DEF Connections, Answer, AnswerIs
  <1>19. CASE Heaps
    BY <1>19 DEF Heaps, Answer, AnswerIs
  <1>20. CASE CpuDigest \/ GpuDigest \/ RegionDigest \/ Overview \/ Threads \/ GpuQueues \/
              GpuTimeline \/ Frame \/ Counter
    BY <1>20 DEF CpuDigest, GpuDigest, RegionDigest, Overview, Threads, GpuQueues, GpuTimeline,
              Frame, Counter, Answer, AnswerIs
  <1>21. CASE MemoryTags \/ MemorySeries \/ AllocSeries \/ Sample \/ Channels \/ Counters \/
              Trackers \/ Modules \/ GameInstances
    BY <1>21 DEF MemoryTags, MemorySeries, AllocSeries, Sample, Channels, Counters, Trackers,
              Modules, GameInstances, Answer, AnswerIs
  <1>22. QED
    BY <1>1, <1>2, <1>3, <1>4, <1>5, <1>6, <1>7, <1>8, <1>9, <1>10, <1>11, <1>12, <1>13,
       <1>14, <1>15, <1>16, <1>17, <1>18, <1>19, <1>20, <1>21 DEF AnswerNext

\* Whatever mode is asked for, first and when it is answered.
LEMMA AnswersBegin == AskInit => AnswerInv
  BY DEF AskInit, AnswerInv

LEMMA AnswersStep == AnswerInv /\ [AnswerNext]_modeVars => AnswerInv'
  <1>1. ASSUME AnswerInv, AnswerNext PROVE AnswerInv'
    BY <1>1, OneAnswer DEF AnswerInv
  <1>2. ASSUME AnswerInv, UNCHANGED modeVars PROVE AnswerInv'
    BY <1>2 DEF AnswerInv, AnswerIs, modeVars
  <1>3. QED
    BY <1>1, <1>2

\* Where there are no frames none is slow.
LEMMA NoFramesHonest ==
  ASSUME mode = "slow_logs", ListingQuestion(mode, question), question.frames = <<>>,
         answer = [events |-> <<>>, slow |-> 0]
  PROVE  ListingsHonest
  <1>1. question.limit \in Nat \ {0}
    BY DEF ListingQuestion
  <1>2. Shown = <<>>
    BY DEF Shown
  <1>3. Due(question) = {}
    BY DEF Due, Wanted, AroundPairs
  <1>4. mode \notin PlainListings /\ mode \notin InTraceOrder
    BY DEF PlainListings, InTraceOrder
  <1>5. ToSet(Shown) = {} /\ IsInjective(Shown) /\ Len(Shown) <= question.limit
    BY <1>1, <1>2 DEF ToSet, IsInjective
  <1>6. QED
    BY <1>3, <1>4, <1>5 DEF ListingsHonest

\* So every listing is honest,
LEMMA AnswersHonest == AnswerInv => ListingsHonest
  <1> SUFFICES ASSUME AnswerInv, mode \in AllListings, answer # NoAnswer, answer # Refusal
               PROVE  ListingsHonest
    BY DEF ListingsHonest, Listed, Answered
  <1>1. ListingQuestion(mode, question)
    BY QuestionsAssumption DEF AnswerInv
  <1>2. AnswerIs
    BY DEF AnswerInv
  <1>3. mode \in {"logs", "bookmarks", "regions", "fences", "objects", "tasks", "assets",
                  "packets", "crossings", "inside", "slow_logs"}
    BY DEF AllListings, InTraceOrder, PlainListings
  <1>4. /\ mode = "crossings" => answer = FramesOver(question)
        /\ mode = "inside" => answer = EventsInside(question)
    BY <1>2 DEF AnswerIs, EmitFramesWhereCounterExceeds, EmitEventsInsideRegion
  <1>5. mode = "slow_logs" =>
          /\ question.quantile.num > 0 /\ question.quantile.num < question.quantile.den
          /\ answer = IF question.frames = <<>> THEN [events |-> <<>>, slow |-> 0]
                      ELSE LogsAround(question)
    BY <1>1, <1>2 DEF AnswerIs, EmitLogsAroundSlowFrames, ListingQuestion
  <1>6. CASE mode = "slow_logs" /\ question.frames = <<>>
    BY <1>1, <1>5, <1>6, NoFramesHonest
  <1>7. CASE ~(mode = "slow_logs" /\ question.frames = <<>>)
    <2>1. Faithful
      BY <1>1, <1>2, <1>3, <1>4, <1>5, <1>7, LogsHonest, BookmarksHonest, RegionsHonest, GroupsHonest,
         TasksHonest, AssetsHonest, PacketsHonest, CrossingsHonest, InsideHonest, SlowLogsHonest
         DEF AnswerIs
    <2>2. AsAsked
      BY <1>1, <1>5, ListingAsAsked
    <2>3. QED
      BY <2>1, <2>2, HonestIfAsAsked
  <1>8. QED
    BY <1>6, <1>7

\* every range stands for its frames,
LEMMA AnswersOfRanges == AnswerInv => RangesAreFrames
  <1>1. ASSUME AnswerInv, mode \in RangeModes, answer # NoAnswer, RangeInTrace(question)
        PROVE  RangesAreFrames
    <2> DEFINE q == question
               Asked(r) == \E f \in AskedFrames(q) \cup Between(q) : Meets(r, f)
    <2>1. RangeQuestion(mode, q) /\ AnswerIs
      BY <1>1, RangesAssumption DEF AnswerInv
    <2>2. Ranged(q) /\ RangeInTrace(q)
      BY <1>1, <2>1 DEF RangeQuestion, Ranged
    <2>3. mode \in {"tasks", "assets"} =>
            /\ Numbered(q.rows) /\ q.limit \in Nat \ {0}
            /\ \A i \in DOMAIN q.rows : IsSpan(q.rows[i])
      <3>1. mode \in {"tasks", "assets"} => ListingQuestion(mode, q)
        BY <1>1, QuestionsAssumption DEF AnswerInv, AllListings, InTraceOrder, PlainListings
      <3>2. QED
        BY <2>1, <3>1 DEF ListingQuestion, RangeQuestion
    <2>4. ASSUME mode = "tasks", Len(answer.events) < q.limit
          PROVE  {e.id : e \in ToSet(answer.events)}
                   = IdsOf(q.rows, LAMBDA r : (mode = "assets" => r.info) /\ Asked(r))
      <3>1. answer = RunTaskList(q)
        BY <2>1, <2>4 DEF AnswerIs
      <3>2. {e.id : e \in ToSet(answer.events)} = {q.rows[i].id : i \in NearFrames(q)}
        BY <2>2, <2>3, <2>4, <3>1, TasksOfFrames
      <3>3. IdsOf(q.rows, LAMBDA r : (mode = "assets" => r.info) /\ Asked(r))
              = {q.rows[i].id : i \in NearFrames(q)}
        BY <2>4 DEF IdsOf, NearFrames
      <3>4. QED
        BY <3>2, <3>3
    <2>5. ASSUME mode = "assets", Len(answer.events) < q.limit
          PROVE  {e.id : e \in ToSet(answer.events)}
                   = IdsOf(q.rows, LAMBDA r : (mode = "assets" => r.info) /\ Asked(r))
      <3>1. answer = RunAsset(q)
        BY <2>1, <2>5 DEF AnswerIs
      <3>2. {e.id : e \in ToSet(answer.events)}
              = {q.rows[i].id : i \in {i \in NearFrames(q) : q.rows[i].info}}
        BY <2>2, <2>3, <2>5, <3>1, AssetsOfFrames
      <3>3. IdsOf(q.rows, LAMBDA r : (mode = "assets" => r.info) /\ Asked(r))
              = {q.rows[i].id : i \in {i \in NearFrames(q) : q.rows[i].info}}
        BY <2>5 DEF IdsOf, NearFrames
      <3>4. QED
        BY <3>2, <3>3
    <2>6. ASSUME mode = "timeline", q.channel = "cpu"
          PROVE  Len(answer) = Len(Selected(AllEvents(q), LAMBDA e : /\ e.timer \in TimerIdsByName(q)
                                                                     /\ Asked(e)))
      <3>1. answer = RunTimeline(q)
        BY <2>1, <2>6 DEF AnswerIs
      <3>2. /\ NumberedLists(q.timelines)
            /\ \A t \in DOMAIN q.timelines : \A i \in DOMAIN q.timelines[t] :
                 IsSpan(q.timelines[t][i])
        BY <2>1, <2>6 DEF RangeQuestion
      <3>3. QED
        BY <2>2, <2>6, <3>1, <3>2, InstancesOfFrames DEF Selected
    <2>7. ASSUME mode = "frames"
          PROVE  answer.events = FirstOf(Selected(q.frames, LAMBDA f : f \in AskedFrames(q)), q.limit)
      <3>1. answer = RunFrames(q)
        BY <2>1, <2>7 DEF AnswerIs
      <3>2. QED
        BY <2>2, <3>1, FramesOfRange DEF Selected
    <2>8. QED
      BY <2>4, <2>5, <2>6, <2>7 DEF RangesAreFrames
  <1>2. ASSUME ~(Answered(RangeModes) /\ RangeInTrace(question)) PROVE RangesAreFrames
    BY <1>2, Zenon DEF RangesAreFrames
  <1>3. QED
    BY <1>1, <1>2 DEF Answered

\* every comparison is fair,
LEMMA AnswersFair == AnswerInv => ComparesFair
  <1> SUFFICES ASSUME AnswerInv, mode = "compare", answer # NoAnswer, Len(answer) < question.limit
               PROVE  ComparesFair
    BY DEF ComparesFair, Answered
  <1>1. CompareQuestion(question)
    BY ComparesAssumption DEF AnswerInv
  <1>2. answer \in RunCompare(question)
    BY DEF AnswerInv, AnswerIs
  <1>3. QED
    BY <1>1, <1>2, ComparisonFair DEF ComparesFair

\* and the views tell one story.
LEMMA AnswersAgree == AnswerInv => ViewsAgree
  <1> SUFFICES ASSUME AnswerInv, mode \in ViewModes, answer # NoAnswer PROVE ViewsAgree
    BY DEF ViewsAgree, Answered, ViewModes
  <1> DEFINE q == question
  <1>1. ViewQuestion(mode, q) /\ AnswerIs
    BY ViewsAssumption DEF AnswerInv
  <1>2. ASSUME mode = "timeline", q.channel # "gpu"
        PROVE  /\ FullRange(q) => Len(answer) = Len(Named(q))
               /\ \A i \in DOMAIN answer, f \in DOMAIN q.frames :
                    /\ q.frames[f].start <= answer[i].start /\ answer[i].start < q.frames[f].end
                    => answer[i].frame = f - 1
    <2>1. answer = RunTimeline(q)
      BY <1>1, <1>2 DEF AnswerIs
    <2>2. QED
      BY <1>1, <1>2, <2>1, TimelineAgrees
  <1>3. ASSUME mode = "butterfly"
        PROVE  \A i, j \in DOMAIN answer : i < j => answer[i].total >= answer[j].total
    <2>1. answer \in RunButterfly(q)
      BY <1>1, <1>3 DEF AnswerIs
    <2>2. QED
      BY <1>1, <1>3, <2>1, ButterflyFalls
  <1>4. ASSUME mode = "task_drill", NEW task \in ToSet(RunTaskList(q).events), task.id = q.taskId
        PROVE  answer.found /\ answer.task = task
    <2>1. answer = RunTaskDrill(q)
      BY <1>1, <1>4 DEF AnswerIs
    <2>2. QED
      BY <1>1, <1>4, <2>1, DrillAgrees
  <1>5. ASSUME mode = "callstack"
        PROVE  /\ answer.found <=> answer.count > 0
               /\ {f.depth + 1 : f \in ToSet(answer.frames)} = {d \in DOMAIN q.stack : q.stack[d] # Missing}
               /\ \A f \in ToSet(answer.frames) : q.stack[f.depth + 1] = f.frame
    <2>1. answer = RunCallstack(q)
      BY <1>1, <1>5 DEF AnswerIs
    <2>2. QED
      BY <1>1, <1>5, <2>1, DepthsKept
  <1>6. ASSUME mode = "connections", q.group < 0
        PROVE  LET Of(id) == EmitConnections([groups |-> q.groups, group |-> id]).events
                   ids == EmitInstances(q).events
               IN  answer.events = Joined([i \in DOMAIN ids |-> Of(ids[i])])
    <2>1. answer = EmitConnections(q)
      BY <1>1, <1>6 DEF AnswerIs
    <2>2. QED
      BY <1>1, <1>6, <2>1, ConnectionsAgree
  <1>7. ASSUME mode = "heaps", Len(q.roots) <= MaxHeaps
        PROVE  {h.heap : h \in {h \in ToSet(answer.events) : h.isRoot}} = ToSet(q.roots)
    <2>1. answer = EmitHeapTree(q)
      BY <1>1, <1>7 DEF AnswerIs
    <2>2. QED
      BY <1>1, <1>7, <2>1, RootsShown
  <1>8. QED
    BY <1>2, <1>3, <1>4, <1>5, <1>6, <1>7 DEF ViewsAgree, Answered
=============================================================================
