---------------------------- MODULE MemoryViews ----------------------------
(***************************************************************************)
(* Counter series, memory tags and samples, and the views of allocations   *)
(* that are no query (Counters, Memory, Allocations), as functions of the  *)
(* rows the providers enumerate and the arguments.                         *)
(***************************************************************************)
EXTENDS Sampling

CONSTANTS NoTag,          \* InvalidTagId
          NoTracker,      \* InvalidTrackerId
          TrackerBits     \* the width of a tag's mask of trackers (64)

\* A counter's samples, those just outside of the window included: they are
\* counted, and no bucket takes them.
EmitSeries(q) ==
  IF ~q.found THEN [found |-> FALSE, total |-> 0, series |-> <<>>]
  ELSE [found |-> TRUE, total |-> Len(q.points),
        series |-> Series(0, q.duration, q.buckets, q.points)]

-----------------------------------------------------------------------------
(* Memory.  q.tags maps a tag's number to its name, parent and trackers.   *)

\* A number given as a name stands for itself, whether there is such a tag or
\* not; a name for the first tag of that name in the order of enumeration.
ResolveTagId(q) ==
  IF q.tag \in q.numbers THEN q.tag
  ELSE LET named == SelectSeq(q.order, LAMBDA t : q.tags[t].name = q.tag)
       IN  IF named = <<>> THEN NoTag ELSE named[1]

\* The focus and its ancestors.  The walk ends at a tag without a parent, at
\* one that is not known, and where it has been before.
MutParentOnly(q, focus) ==
  {focus} \cup {q.tags[t].parent : t \in DOMAIN q.tags \cap {focus}}
KeepSet(q, focus) ==
  LET Step(walk, i) ==
        IF walk.cur = NoTag \/ walk.cur \in walk.keep THEN walk
        ELSE [keep |-> walk.keep \cup {walk.cur},
              cur  |-> IF walk.cur \in DOMAIN q.tags THEN q.tags[walk.cur].parent ELSE NoTag]
  IN  FoldLeft(Step, [keep |-> {}, cur |-> focus],
               [i \in 1 .. Cardinality(DOMAIN q.tags) + 1 |-> i]).keep

\* A tracker is tested by shifting a bit: beyond the width it comes round.
InTracker(q, t) ==
  q.tracker # NoTracker => (q.tracker % TrackerBits) \in q.tags[t].trackers

RunTagsView(q) ==
  LET focus == ResolveTagId(q)
  IN  {t \in DOMAIN q.tags : /\ focus = NoTag \/ t \in KeepSet(q, focus)
                             /\ InTracker(q, t)}

\* q.samples holds the samples per tag, of the tracker asked for or tracker 0.
RunSamplesView(q) ==
  LET tag == ResolveTagId(q)
      samples == IF tag \in DOMAIN q.samples THEN q.samples[tag] ELSE <<>>
  IN  IF tag = NoTag THEN [found |-> FALSE, total |-> 0, series |-> <<>>]
      ELSE [found |-> TRUE, total |-> Len(samples),
            series |-> Series(0, q.duration, q.buckets, samples)]

-----------------------------------------------------------------------------
(* Allocations over time, for each of the timelines alike.                 *)

RunTimelineView(q) ==
  [total |-> Len(q.points), found |-> TRUE, series |-> Series(0, q.duration, q.buckets, q.points)]
=============================================================================
