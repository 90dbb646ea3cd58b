----------------------------- MODULE Catalogues -----------------------------
(***************************************************************************)
(* The query modes that show one thing by its number (a task, a callstack) *)
(* and those that list all there is of a kind, without limit or filter     *)
(* (channels, counters, trackers, modules, heaps, game instances and their *)
(* connections).  A question q holds what the provider has.                *)
(***************************************************************************)
EXTENDS Listings

CONSTANT MaxHeaps     \* heaps shown at most (1000)

ASSUME HeapsAssumption == MaxHeaps \in Nat \ {0}

NotFound == [found |-> FALSE]

-----------------------------------------------------------------------------
(* One thing by its number.                                                *)

TaskNumbered(q, id) == Selected(q.rows, LAMBDA task : task.id = id)

RunTaskDrill(q) ==
  LET tasks == TaskNumbered(q, q.taskId)
  IN  IF tasks = <<>> THEN NotFound ELSE [found |-> TRUE, task |-> Head(tasks)]

\* A callstack is a sequence of frames, some of them missing; one that is not
\* known has no frames.  The depth of a frame counts the missing ones too.
Missing == "missing"

MutDepthOfShown(q) ==
  LET shown == Selected(q.stack, LAMBDA f : f # Missing)
  IN  [found |-> q.stack # <<>>, count |-> Len(q.stack),
       frames |-> [i \in DOMAIN shown |-> [depth |-> i - 1, frame |-> shown[i]]]]
RunCallstack(q) ==
  LET numbered == [i \in DOMAIN q.stack |-> [depth |-> i - 1, frame |-> q.stack[i]]]
  IN  [found |-> q.stack # <<>>, count |-> Len(q.stack),
       frames |-> Selected(numbered, LAMBDA f : f.frame # Missing)]

-----------------------------------------------------------------------------
(* All there is of a kind.                                                 *)

Catalogue(rows) == [count |-> Len(rows), events |-> rows]

RunChannels(q)     == Catalogue(q.rows)
EmitCatalogue(q)   == Catalogue(q.rows)
RunTrackersView(q) == Catalogue(q.rows)
RunModules(q)      == Catalogue(q.rows)

\* Game instances are the groups, a connection a row of its group.
EmitInstances(q) == Catalogue([i \in DOMAIN q.groups |-> q.groups[i].id])

MutFirstInstance(q) ==
  Catalogue(RowsOf(q.groups, LAMBDA g : g.id = Greater(q.group, 0)))
EmitConnections(q) ==
  Catalogue(RowsOf(q.groups, LAMBDA g : GroupChosen(q, g)))

\* The roots first, then what EnumerateHeaps has, until there are enough.
EmitHeapTree(q) ==
  LET Shown(heaps, root) == [i \in DOMAIN heaps |-> [heap |-> heaps[i], isRoot |-> root]]
  IN  Catalogue(FirstOf(Shown(q.roots, TRUE) \o Shown(q.heaps, FALSE), MaxHeaps))
=============================================================================
