------------------------------ MODULE SyncLog ------------------------------
(***************************************************************************)
(* What the sync service promises its clients, without requests, locks or  *)
(* transactions: for every store one log of (event id, record) entries.    *)
(* The position of an entry is its globalSequence.  A log only grows at    *)
(* its end, an event id is in it at most once, and an entry never changes. *)
(* Outside production a store may be emptied (POST /sync/dev/reset).       *)
(***************************************************************************)
EXTENDS Naturals, Sequences

CONSTANTS Stores,     \* ids of the synchronised stores
          EventIds,   \* client-generated event ids
          Records,    \* the possible values of record_json
          Production  \* NODE_ENV === 'production'

VARIABLE log          \* log[s]: the entries of store s in global order

Entry == [id : EventIds, rec : Records]

LogInit == log = [s \in Stores |-> <<>>]

\* No event id occurs at two positions of a log.
IdsOnce(l) == \A i, j \in DOMAIN l : l[i].id = l[j].id => i = j

\* l is extended to m: everything l holds stays where it is.
Extends(m, l) ==
  /\ Len(l) <= Len(m)
  /\ \A i \in DOMAIN l : m[i] = l[i]

Grow(s) ==
  /\ log'[s] \in Seq(Entry)
  /\ Extends(log'[s], log[s])
  /\ IdsOnce(log'[s])
  /\ log' = [log EXCEPT ![s] = log'[s]]

Empty(s) ==
  /\ ~Production
  /\ log' = [log EXCEPT ![s] = <<>>]

LogNext == \E s \in Stores : Grow(s) \/ Empty(s)

LogSpec == LogInit /\ [][LogNext]_log
=============================================================================
