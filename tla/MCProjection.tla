---------------------------- MODULE MCProjection ----------------------------
(* Projection on small instances. *)
EXTENDS ProjectionInvariant

\* Undisturbed behaviours: three rows until Sound is lost; after it (the overlap of the
\* two loops, a rebase that is not asked for) one row, or two while no pull is under
\* way and no rebuild is asked for.  With a reload, or an event that cannot be read:
\* two rows, as long as Sound holds.  What is checked of the snapshot is claimed only
\* while it holds, and it is never regained.
Explored ==
  IF reloads + faults = 0
  THEN \/ Sound \/ Len(rows) <= 1
       \/ Len(rows) <= 2 /\ poll = "idle" /\ ~rebuild
  ELSE Sound /\ Len(rows) <= 2
=============================================================================
