------------------------------ MODULE Sampling ------------------------------
(***************************************************************************)
(* How TraceDigest keeps a long stream of numbers short: FReservoir        *)
(* (Percentiles.h), a random sample and the percentiles read off it;       *)
(* FSeriesBuckets (SeriesBucket.h), a window cut into equal buckets; and   *)
(* the largest rows of a table.  Times are whole numbers, and a quotient   *)
(* is kept multiplied by its divisor, so that nothing is rounded.          *)
(***************************************************************************)
EXTENDS Integers, SequencesExt, FiniteSetsExt

Lesser(a, b) == IF a <= b THEN a ELSE b
Greater(a, b) == IF a >= b THEN a ELSE b

SumOf(values) == FoldLeft(LAMBDA a, b : a + b, 0, values)

-----------------------------------------------------------------------------
(* Rows in order.  SelectSeq and FlattenSeq say the same by recursion; a   *)
(* row's number is said here outright.                                     *)

\* The n-th place, when before[p] holds the places before place p.
Nth(before, n) == CHOOSE p \in DOMAIN before : Cardinality(before[p]) = n - 1

\* The rows at some places, in their order.
RowsAt(rows, places) ==
  LET before == [p \in places |-> {r \in places : r < p}]
  IN  [n \in 1 .. Cardinality(places) |-> rows[Nth(before, n)]]

Selected(rows, Keep(_)) == RowsAt(rows, {i \in DOMAIN rows : Keep(rows[i])})

\* Lists one after the other.
Joined(lists) ==
  LET cells  == UNION {{i} \X DOMAIN lists[i] : i \in DOMAIN lists}
      before == [c \in cells |-> {d \in cells : d[1] < c[1] \/ (d[1] = c[1] /\ d[2] < c[2])}]
  IN  [n \in 1 .. Cardinality(cells) |-> lists[Nth(before, n)[1]][Nth(before, n)[2]]]

\* The values in ascending order, each at its rank.
Sorted(values) ==
  LET before == [i \in DOMAIN values |->
                   {j \in DOMAIN values : values[j] < values[i] \/ (values[j] = values[i] /\ j < i)}]
  IN  [n \in 1 .. Len(values) |-> values[Nth(before, n)]]

\* A row with more columns: row @@ columns, in terms that the provers know.
Widened(row, columns) ==
  [c \in DOMAIN row \cup DOMAIN columns |-> IF c \in DOMAIN row THEN row[c] ELSE columns[c]]

-----------------------------------------------------------------------------
(* FReservoir.                                                             *)

EmptyReservoir == [samples |-> <<>>, seen |-> 0, sum |-> 0, min |-> 0, max |-> 0]

\* What RandRange may return when seen values went before this one.
MutNeverTheNewest(seen) == IF seen = 0 THEN {0} ELSE 0 .. seen - 1
Picks(seen) == 0 .. seen

Add(r, value, cap, pick) ==
  [samples |-> IF Len(r.samples) < cap THEN Append(r.samples, value)
               ELSE IF pick < cap THEN [r.samples EXCEPT ![pick + 1] = value]
               ELSE r.samples,
   seen |-> r.seen + 1,
   sum  |-> r.sum + value,
   min  |-> IF r.seen = 0 THEN value ELSE Lesser(r.min, value),
   max  |-> IF r.seen = 0 THEN value ELSE Greater(r.max, value)]

\* Every value of a stream added; picks[i] is what RandRange returns for the
\* i-th, which matters only once the sample is full.
Reservoir(stream, cap, picks) ==
  FoldLeft(LAMBDA r, i : Add(r, stream[i], cap, picks[i]),
           EmptyReservoir, [i \in DOMAIN stream |-> i])

\* The p.num / p.den quantile of an ascending sequence, times p.den: linear
\* interpolation between the two neighbours of the rank.
MutUpperNeighbour(sorted, p) ==
  LET rank == p.num * (Len(sorted) - 1)
      lo   == rank \div p.den
  IN  p.den * sorted[Lesser(lo + 1, Len(sorted) - 1) + 1]
PercentileSorted(sorted, p) ==
  LET rank == p.num * (Len(sorted) - 1)
      lo   == rank \div p.den
      hi   == Lesser(lo + 1, Len(sorted) - 1)
      frac == rank % p.den
  IN  sorted[lo + 1] * (p.den - frac) + sorted[hi + 1] * frac

GetPercentile(samples, p) ==
  IF samples = <<>> THEN 0 ELSE PercentileSorted(Sorted(samples), p)

P50 == [num |-> 50, den |-> 100]
P95 == [num |-> 95, den |-> 100]
P99 == [num |-> 99, den |-> 100]

\* The statistics of a row of a digest.  A stream a model can hold is far
\* below the cap of 200000, so every value is kept.
Stats(stream) ==
  LET r == Reservoir(stream, Greater(1, Len(stream)), [i \in DOMAIN stream |-> 0])
  IN  [count |-> r.seen, total |-> r.sum, min |-> r.min, max |-> r.max,
       p50 |-> GetPercentile(r.samples, P50),
       p95 |-> GetPercentile(r.samples, P95),
       p99 |-> GetPercentile(r.samples, P99)]

-----------------------------------------------------------------------------
(* FSeriesBuckets.  A point has a time and a value; n buckets.             *)

MutLastBucketOpen(start, end, n, time) ==
  IF time < start \/ time >= end THEN {}
  ELSE {((time - start) * n) \div Greater(end - start, 1)}

\* The bucket a time falls in; the end of the window is in the last one.  A
\* window without width is given one.
BucketOf(start, end, n, time) ==
  IF time < start \/ time > Greater(end, start) THEN {}
  ELSE {Lesser(((time - start) * n) \div Greater(end - start, 1), n - 1)}

AddPoint(bucket, value) ==
  IF bucket.count = 0
  THEN [min |-> value, max |-> value, sum |-> value, count |-> 1]
  ELSE [min |-> Lesser(bucket.min, value), max |-> Greater(bucket.max, value),
        sum |-> bucket.sum + value, count |-> bucket.count + 1]

\* The rows of a series: the buckets that hold a point, in order.
Series(start, end, n, points) ==
  LET Content(b) ==
        FoldLeft(LAMBDA acc, p : IF b \in BucketOf(start, end, n, p.time)
                                 THEN AddPoint(acc, p.value) ELSE acc,
                 [min |-> 0, max |-> 0, sum |-> 0, count |-> 0], points)
      Row(b) == Widened([bucket |-> b], Content(b))
  IN  SelectSeq([i \in 1 .. n |-> Row(i - 1)], LAMBDA row : row.count > 0)

-----------------------------------------------------------------------------
(* Sorting rows by Weight, largest first, and keeping the first n.  The    *)
(* sort is not stable: rows of one weight come in any order.               *)

TopRows(rows, Weight(_), n) ==
  LET k == Lesser(n, Cardinality(rows))
  IN  {s \in [1 .. k -> rows] :
         /\ \A i, j \in 1 .. k : i < j => s[i] # s[j]
         /\ \A i \in 1 .. k - 1 : Weight(s[i]) >= Weight(s[i + 1])
         /\ \A r \in rows : k > 0 /\ (\A i \in 1 .. k : s[i] # r)
                            => Weight(r) <= Weight(s[k])}
=============================================================================
