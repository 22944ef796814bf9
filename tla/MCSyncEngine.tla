---------------------------- MODULE MCSyncEngine ----------------------------
(* SyncEngine on small instances. *)
EXTENDS SyncEngine, TLC

CONSTANTS n1, n2, n3, d1, d2, e1, e2, e3, g1

\* One engine per database, or two tabs on the first of two databases.
TwoDevices == n1 :> d1 @@ n2 :> d2
TwoTabs == n1 :> d1 @@ n2 :> d1 @@ n3 :> d2

\* All events belong to one aggregate: every version is contended.
OneAggregate == [e \in EventIds |-> g1]

\* Events are interchangeable.
Events == Permutations(EventIds)

\* One disturbance of a behaviour: a fault, a reset, or a push of an engine that was
\* not caught up.
OneDisturbance == faults + resets + (IF rushed THEN 1 ELSE 0) <= 1
=============================================================================
