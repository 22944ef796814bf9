---------------------------- MODULE MCSyncServer ----------------------------
(* SyncServer on small instances. *)
EXTENDS SyncServer, TLC

CONSTANTS e1, e2, v1, v2

plain(e, v) == [id |-> e, rec |-> v, base |-> NoBase]

\* Batches without sharing references: empty, single, a pair, a repetition
\* inside one batch, and the same id with a rewritten record.
PlainBatches == {<<>>, <<plain(e1, v1)>>, <<plain(e1, v2)>>,
                 <<plain(e2, v1), plain(e1, v1)>>, <<plain(e2, v1), plain(e2, v2)>>}

\* Batches for the sharing checks: empty, and an event that cites only a scope state (it is
\* not checked) before one that cites the first scope state and the first grant of a resource.
shared(e) == [id |-> e, rec |-> v1, base |-> [ref |-> 1, grant |-> 1, res |-> TRUE]]
partial(e) == [id |-> e, rec |-> v1, base |-> [ref |-> 2, grant |-> 0, res |-> TRUE]]
SharedBatches == {<<>>, <<partial(e2), shared(e1)>>}

Symmetry == Permutations(Requests)
=============================================================================
