----------------------------- MODULE Comparison -----------------------------
(***************************************************************************)
(* trace_compare (Compare.cpp): each of two traces is reduced to one       *)
(* aggregate per name, and the aggregates are joined by name.  q.a and q.b *)
(* are the traces, as in Timings; q.threshold is -threshold=, 0 if none.   *)
(***************************************************************************)
EXTENDS Timings

\* FMath::Abs(x - y).
Gap(x, y) == Max({x - y, y - x})

-----------------------------------------------------------------------------
(* Event channels.  Timers of one name are taken together: counts and      *)
(* totals are added; of maximum and percentiles the largest is kept.       *)

NoEvents == [count |-> 0, total |-> 0, max |-> 0, p50 |-> 0, p95 |-> 0, p99 |-> 0]

IngestReservoir(agg, row) ==
  [count |-> agg.count + row.count, total |-> agg.total + row.total,
   max |-> Greater(agg.max, row.max), p50 |-> Greater(agg.p50, row.p50),
   p95 |-> Greater(agg.p95, row.p95), p99 |-> Greater(agg.p99, row.p99)]

\* Rows of a digest, several of which may bear one name, by name.
MutOneTimerPerName(rows) ==
  [n \in {r.name : r \in rows} |->
     IngestReservoir(NoEvents, CHOOSE r \in rows : r.name = n)]
ByName(rows) ==
  [n \in {r.name : r \in rows} |->
     FoldSet(LAMBDA r, agg : IngestReservoir(agg, r), NoEvents, {r \in rows : r.name = n})]

BuildRegionSide(t) == ByName(RegionRows(t))

BuildSide(channel, t) ==
  CASE channel = "gpu"    -> ByName(DigestRows(t, GpuEvents(t), "gpu"))
    [] channel = "region" -> BuildRegionSide(t)
    [] OTHER              -> ByName(DigestRows(t, AllEvents(t), "cpu"))

\* What a side shows of a name it may not have.
SideOf(side, name, none) == IF name \in DOMAIN side THEN side[name] ELSE none

DiffRow(a, b, name, none) ==
  [name |-> name, a |-> SideOf(a, name, none), b |-> SideOf(b, name, none),
   onlyInA |-> name \notin DOMAIN b, onlyInB |-> name \notin DOMAIN a]

\* The threshold drops what changed little, never what one side lacks.
MutThresholdDropsAll(q, row) ==
  q.threshold > 0 => Gap(row.b.p95, row.a.p95) >= q.threshold
KeepsRow(q, row) ==
  q.threshold > 0 /\ ~row.onlyInA /\ ~row.onlyInB
    => Gap(row.b.p95, row.a.p95) >= q.threshold

EmitEventDiff(q, a, b) ==
  TopRows({row \in {DiffRow(a, b, n, NoEvents) : n \in DOMAIN a \cup DOMAIN b} : KeepsRow(q, row)},
          LAMBDA row : Gap(row.b.p95, row.a.p95), q.limit)

-----------------------------------------------------------------------------
(* Memory: the peak per tag of tracker 0.  A tag without a positive sample *)
(* is as good as absent; of two tags of one name the later counts.         *)

PeakOf(samples) == FoldLeft(Greater, 0, samples)

BuildMemorySide(t) ==
  LET used    == {i \in DOMAIN t.tags : PeakOf(t.tags[i].samples) > 0}
      Latest(n) == Max({i \in used : t.tags[i].name = n})
  IN  [n \in {t.tags[i].name : i \in used} |-> PeakOf(t.tags[Latest(n)].samples)]

EmitMemoryDiff(q, a, b) ==
  TopRows({DiffRow(a, b, n, 0) : n \in DOMAIN a \cup DOMAIN b},
          LAMBDA row : Gap(row.b, row.a), q.limit)

-----------------------------------------------------------------------------
(* Counters, joined by name; a maximum starts from 0.                      *)

NoSamples == [count |-> 0, sum |-> 0, max |-> 0]

BuildCounterSide(t) ==
  LET names == {t.counters[i].name : i \in DOMAIN t.counters}
      Values(n) == LET named == Selected(t.counters, LAMBDA c : c.name = n)
                   IN  Joined([i \in DOMAIN named |-> named[i].values])
      Agg(n) == [count |-> Len(Values(n)), sum |-> SumOf(Values(n)), max |-> PeakOf(Values(n))]
  IN  [n \in {n \in names : Values(n) # <<>>} |-> Agg(n)]

EmitCounterDiff(q, a, b) ==
  TopRows({DiffRow(a, b, n, NoSamples) : n \in DOMAIN a \cup DOMAIN b},
          LAMBDA row : Gap(row.b.max, row.a.max), q.limit)

-----------------------------------------------------------------------------
(* Allocations: four numbers, in a fixed order.                            *)

BuildMemallocSide(t) ==
  LET Column(f) == [i \in DOMAIN t.points |-> t.points[i][f]]
  IN  [peak |-> PeakOf(Column("total")), live |-> PeakOf(Column("live")),
       allocs |-> SumOf(Column("allocs")), frees |-> SumOf(Column("frees"))]

EmitMemallocDiff(a, b) ==
  {[i \in 1 .. 4 |-> LET f == <<"peak", "live", "allocs", "frees">>[i]
                     IN  [name |-> f, a |-> a[f], b |-> b[f], onlyInA |-> FALSE, onlyInB |-> FALSE]]}

RunCompare(q) ==
  CASE q.channel = "memory"   -> EmitMemoryDiff(q, BuildMemorySide(q.a), BuildMemorySide(q.b))
    [] q.channel = "counter"  -> EmitCounterDiff(q, BuildCounterSide(q.a), BuildCounterSide(q.b))
    [] q.channel = "memalloc" -> EmitMemallocDiff(BuildMemallocSide(q.a), BuildMemallocSide(q.b))
    [] OTHER -> EmitEventDiff(q, BuildSide(q.channel, q.a), BuildSide(q.channel, q.b))
=============================================================================
