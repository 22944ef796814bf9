----------------------------- MODULE SyncEngine -----------------------------
(***************************************************************************)
(* The data path of packages/sync-engine/src/SyncEngine.ts: how the events *)
(* of several devices reach the log of the sync server and come back.      *)
(*                                                                         *)
(* An engine is one SyncEngine object (one browser tab).  Tabs of the same *)
(* browser share one SQLite database, so DbOf maps engines to databases.   *)
(* An engine runs at most one pull and one push at a time (inFlight), and  *)
(* the two interleave at every await: each is a thread with a program      *)
(* counter, and an action is the code between two awaits that another      *)
(* actor can observe.  One request to the database worker is atomic.       *)
(*                                                                         *)
(* The server is the log SyncLog specifies (SyncServer implements it),     *)
(* in production, i.e. without dev/reset.  An event is its id; AggOf gives *)
(* the aggregate it belongs to and `version` stands for the bytes that     *)
(* depend on it (the ciphertext is bound to the version by its AAD).       *)
(* When loops run, back off or sleep is in SyncScheduler; here a pull or a *)
(* push may start whenever none is in flight.                              *)
(***************************************************************************)
EXTENDS Integers, Sequences, FiniteSets

CONSTANTS
  Engines,         \* SyncEngine instances
  Dbs,             \* local databases
  DbOf,            \* the database of an engine
  Pullers,         \* engines whose pull loop runs (one that met a non-retryable
                   \* error is parked, and its engine only pushes)
  EventIds,        \* events that are ever created
  Aggregates,
  AggOf,           \* the aggregate of an event
  PullLimit,       \* pullLimit (200)
  MissingLimit,    \* the server's cap on `missing` (1_000)
  PushBatchSize,   \* pushBatchSize (100)
  MaxPushRetries,  \* maxPushRetries (2)
  MaxFaults,       \* bound on network failures, failed decryptions and reloads
  MaxResets        \* bound on stop / resetSyncState / start

ASSUME EngineConstants ==
  /\ DbOf \in [Engines -> Dbs]
  /\ Pullers \subseteq Engines
  /\ AggOf \in [EventIds -> Aggregates]
  /\ PullLimit \in Nat \ {0} /\ MissingLimit \in Nat \ {0}
  /\ PushBatchSize \in Nat \ {0} /\ MaxPushRetries \in Nat \ {0}
  /\ MaxFaults \in Nat /\ MaxResets \in Nat

NoHead == -1      \* lastKnownHead === null

VARIABLES
  log,       \* the server's log of [id, ver] entries; the position is globalSequence
  ver,       \* ver[b][e]: events.version of the row of e in database b, 0 if none
  csn,       \* csn[b][e]: events.commit_sequence of that row
  map,       \* map[b][e]: sync_event_map.global_seq of e, 0 if e is pending or absent
  cursor,    \* sync_meta.last_pulled_global_seq
  known,     \* lastKnownHead of an engine
  th,        \* th[n][t]: the pull or push thread of engine n
  orphans,   \* push requests nobody waits for any more but the server may still get
  faults,    \* faults so far
  resets,    \* resets so far
  rushed,    \* history: some push was sent by an engine that was not caught up
  taken      \* history: a command took a version a page had found free, or the
             \* rewriter moved an event that another thread had inserted

vars == <<log, ver, csn, map, cursor, known, th, orphans, faults, resets, rushed, taken>>

Entry == [id : EventIds, ver : Nat]
PageEntry == [seq : Nat, id : EventIds, ver : Nat]
PullLabels == {"idle", "query", "head", "reply", "apply", "cursor", "finish", "parked"}
PushLabels == {"idle", "joined", "check", "waiting", "recheck", "expect", "sent", "ok", "ack", "missing", "conflict", "refused",
               "apply", "acked", "advance", "advanced", "retry", "parked"}
Thread == [pc : PullLabels \cup PushLabels,
           at : Int,                   \* since of a pull, expectedHead of a push
           head : Nat,                 \* response.head
           page : Seq(PageEntry),      \* events, missing or assigned of the response
           more : BOOLEAN,             \* response.hasMore
           next : Nat,                 \* applyRemoteEvents: the event being looked at
           insert : SUBSET EventIds,   \* ... the rows it is going to insert
           tries : Nat,                \* attempt
           batch : Seq(Entry)]         \* the pending rows a push sends
Idle == [pc |-> "idle", at |-> 0, head |-> 0, page |-> <<>>, more |-> FALSE,
         next |-> 0, insert |-> {}, tries |-> 0, batch |-> <<>>]
Threads == {"pull", "push"}

-----------------------------------------------------------------------------
(* The local database *)

Present(b, e) == ver[b][e] # 0
Pending(b) == {e \in EventIds : Present(b, e) /\ map[b][e] = 0}
HasPending(b) == Pending(b) # {}
Larger(x, y) == IF x < y THEN y ELSE x

\* The row of aggregate g with version v (UNIQUE(aggregate, version)).
Occupants(b, g, v) == {e \in EventIds : Present(b, e) /\ AggOf[e] = g /\ ver[b][e] = v}
MaxVersion(b, g) ==
  LET vs == {ver[b][e] : e \in {x \in EventIds : AggOf[x] = g}} \cup {0}
  IN  CHOOSE v \in vs : \A w \in vs : w <= v
LastCommit(b) ==
  LET cs == {csn[b][e] : e \in EventIds} \cup {0}
  IN  CHOOSE c \in cs : \A d \in cs : d <= c

(* The server *)

LogIds == {log[k].id : k \in DOMAIN log}

\* The head check of a push.
AtHead(at) == at = Len(log)

\* loadSince.
Page(since, limit) ==
  LET size == IF since >= Len(log) THEN 0
              ELSE IF Len(log) - since < limit THEN Len(log) - since ELSE limit
  IN  [k \in 1..size |-> [seq |-> since + k, id |-> log[since + k].id,
                          ver |-> log[since + k].ver]]

Init ==
  /\ log = <<>>
  /\ ver = [b \in Dbs |-> [e \in EventIds |-> 0]]
  /\ csn = [b \in Dbs |-> [e \in EventIds |-> 0]]
  /\ map = [b \in Dbs |-> [e \in EventIds |-> 0]]
  /\ cursor = [b \in Dbs |-> 0]
  /\ known = [n \in Engines |-> NoHead]
  /\ th = [n \in Engines |-> [t \in Threads |-> Idle]]
  /\ orphans = {}
  /\ faults = 0
  /\ resets = 0
  /\ rushed = FALSE
  /\ taken = FALSE

\* Thread t of engine n becomes the record `x`.
Becomes(n, t, x) == th' = [th EXCEPT ![n][t] = x]

-----------------------------------------------------------------------------
(* A command handler appends an event at the next version of its aggregate:  *)
(* GoalRepository.save and EncryptedEventAppender, one batch.                *)

\* A page that is being applied to database b has found free, for an event of
\* aggregate g it is going to insert, version v or a later one.
FoundFree(b, g, v) ==
  \E n \in Engines, t \in Threads :
    /\ DbOf[n] = b /\ th[n][t].pc = "apply"
    /\ \E k \in 1..(th[n][t].next - 1) :
         LET p == th[n][t].page[k]
         IN  p.id \in th[n][t].insert /\ AggOf[p.id] = g /\ p.ver >= v

Append1(b, e) ==
  LET v == MaxVersion(b, AggOf[e]) + 1 IN
  /\ \A c \in Dbs : ~Present(c, e)
  /\ e \notin LogIds
  /\ ver' = [ver EXCEPT ![b][e] = v]
  /\ csn' = [csn EXCEPT ![b][e] = LastCommit(b) + 1]
  /\ taken' = (taken \/ FoundFree(b, AggOf[e], v))
  /\ UNCHANGED <<log, map, cursor, known, th, orphans, faults, resets, rushed>>

-----------------------------------------------------------------------------
(* applyRemoteEvents, for the pull thread and for a push conflict *)

\* Start applying a page (the existing mappings only decide about a rebase).
Applying(x) ==
  [x EXCEPT !.pc = "apply", !.next = 1, !.insert = {}]

\* PendingEventVersionRewriter: every pending row of the aggregate from version
\* v on moves up by one, or none does if a synced row is in the way.
Shifted(b, g, v) == {e \in Pending(b) : AggOf[e] = g /\ ver[b][e] >= v}
CanShift(b, g, v) ==
  \A e \in Shifted(b, g, v) :
    \A f \in Occupants(b, g, ver[b][e] + 1) : f \in Shifted(b, g, v)
ShiftVersions(b, g, v) ==
  [ver EXCEPT ![b] = [e \in EventIds |->
     IF e \in Shifted(b, g, v) THEN ver[b][e] + 1 ELSE ver[b][e]]]

\* A thread that is done or fails retryably ends; one that fails with a
\* non-retryable error parks its loop.  The end of a pull wakes a push that
\* awaits it (inFlightPromise, resolvePullWaiters).
\* Mistake: nobody is woken.
NotWoken(t, label) == label
Woken(t, label) ==
  IF t = "push" THEN label
  ELSE CASE label = "joined"  -> "check"
         [] label = "waiting" -> "recheck"
         [] OTHER -> label
Leaves(n, t, x) ==
  th' = [th EXCEPT ![n] = [u \in Threads |->
           IF u = t THEN x ELSE [th[n][u] EXCEPT !.pc = Woken(t, @)]]]
Ends(n, t) == Leaves(n, t, Idle)
Parks(n, t) == Leaves(n, t, [Idle EXCEPT !.pc = "parked"])

\* The loop over the incoming events looks for the id first ...
LookUpEvent(n, t) ==
  LET x == th[n][t]
      e == x.page[x.next]
  IN  /\ x.pc = "apply" /\ x.next <= Len(x.page) /\ e.id \notin x.insert
      /\ Becomes(n, t, IF Present(DbOf[n], e.id) THEN [x EXCEPT !.next = @ + 1]
                       ELSE [x EXCEPT !.insert = @ \cup {e.id}])
      /\ UNCHANGED <<log, ver, csn, map, cursor, known, orphans, faults, resets, rushed, taken>>

\* ... and then for the version, until nobody has it.  By now another thread may
\* have inserted the same event: its row is in the way like any other.
ResolveVersion(n, t) ==
  LET b == DbOf[n]
      x == th[n][t]
      e == x.page[x.next]
      g == AggOf[e.id]
      at == Occupants(b, g, e.ver)
  IN  /\ x.pc = "apply" /\ x.next <= Len(x.page) /\ e.id \in x.insert
      /\ \/ /\ at = {}
            /\ Becomes(n, t, [x EXCEPT !.next = @ + 1])
            /\ UNCHANGED <<ver, taken>>
         \/ /\ at # {} /\ at \subseteq Pending(b) /\ CanShift(b, g, e.ver)
            /\ ver' = ShiftVersions(b, g, e.ver)
            /\ taken' = (taken \/ Present(b, e.id))
            /\ UNCHANGED th
         \/ /\ at # {} /\ at \subseteq Pending(b) /\ ~CanShift(b, g, e.ver)
            /\ Ends(n, t)
            /\ UNCHANGED <<ver, taken>>
         \/ /\ at # {} /\ ~(at \subseteq Pending(b))
            /\ Parks(n, t)
            /\ UNCHANGED <<ver, taken>>
      /\ UNCHANGED <<log, csn, map, cursor, known, orphans, faults, resets, rushed>>

\* The positions of a page whose INSERT OR IGNORE INTO events takes effect: the
\* id is new, and its version is free in the table and in the batch so far.
Inserted(b, x) ==
  {k \in DOMAIN x.page :
     LET e == x.page[k] IN
     /\ e.id \in x.insert
     /\ ~Present(b, e.id)
     /\ Occupants(b, AggOf[e.id], e.ver) = {}
     /\ \A j \in 1..(k - 1) :
          x.page[j].id \in x.insert /\ ~Present(b, x.page[j].id) =>
            ~(AggOf[x.page[j].id] = AggOf[e.id] /\ x.page[j].ver = e.ver)}

\* INSERT OR IGNORE INTO sync_event_map: event_id and global_seq are both unique.
WithMappings(b, page, present) ==
  [e \in EventIds |->
     LET rows == {k \in DOMAIN page :
                    /\ page[k].id = e
                    /\ e \in present
                    /\ \A f \in EventIds : map[b][f] # page[k].seq}
     IN  IF map[b][e] = 0 /\ rows # {} THEN page[CHOOSE k \in rows : TRUE].seq
         ELSE map[b][e]]

\* The batch of inserts, and the check afterwards that every row is there.
CommitPage(n, t) ==
  LET b == DbOf[n]
      x == th[n][t]
      ins == Inserted(b, x)
      newIds == {x.page[k].id : k \in ins}
      present == {e \in EventIds : Present(b, e)} \cup newIds
      At(e) == CHOOSE k \in ins : x.page[k].id = e
  IN  /\ x.pc = "apply"
      /\ x.next > Len(x.page)
      /\ ver' = [ver EXCEPT ![b] = [e \in EventIds |->
                   IF e \in newIds THEN x.page[At(e)].ver ELSE ver[b][e]]]
      /\ csn' = [csn EXCEPT ![b] = [e \in EventIds |->
                   IF e \in newIds
                   THEN LastCommit(b) + Cardinality({k \in ins : k <= At(e)})
                   ELSE csn[b][e]]]
      /\ map' = [map EXCEPT ![b] = WithMappings(b, x.page, present)]
      /\ IF x.insert \subseteq present
         THEN Becomes(n, t, [x EXCEPT !.pc = IF t = "pull" THEN "cursor" ELSE "advance",
                                      !.insert = {}, !.next = 0, !.batch = <<>>])
         ELSE Parks(n, t)
      /\ UNCHANGED <<log, cursor, known, orphans, faults, resets, rushed, taken>>

-----------------------------------------------------------------------------
(* The pull thread: pullOnceInternal *)

pull(n) == th[n]["pull"]
push(n) == th[n]["push"]

InFlight(n) == pull(n).pc \notin {"idle", "parked"}

\* since is read from the database (hadPending and the rebase are in Projection).  A push that waits for a
\* pull has woken the loop even if it was parked.
StartPull(n) ==
  /\ n \in Pullers \/ push(n).pc = "waiting"
  /\ ~InFlight(n)
  /\ Becomes(n, "pull", [Idle EXCEPT !.pc = "query", !.at = cursor[DbOf[n]]])
  /\ UNCHANGED <<log, ver, csn, map, cursor, known, orphans, faults, resets, rushed, taken>>

\* The server reads the page ...
ServePage(n) ==
  /\ pull(n).pc = "query"
  /\ Becomes(n, "pull", [pull(n) EXCEPT !.pc = "head", !.page = Page(pull(n).at, PullLimit)])
  /\ UNCHANGED <<log, ver, csn, map, cursor, known, orphans, faults, resets, rushed, taken>>

\* ... and then, in a second query, the head.
ServeHead(n) ==
  LET size == Len(pull(n).page) IN
  /\ pull(n).pc = "head"
  /\ Becomes(n, "pull", [pull(n) EXCEPT !.pc = "reply", !.head = Len(log),
       !.more = size = PullLimit /\ Len(log) > pull(n).at + size])
  /\ UNCHANGED <<log, ver, csn, map, cursor, known, orphans, faults, resets, rushed, taken>>

\* Mistake: the cursor is moved before the events are applied.
ReceivePageAndAdvance(n) ==
  /\ pull(n).pc = "reply"
  /\ known' = [known EXCEPT ![n] = pull(n).head]
  /\ cursor' = [cursor EXCEPT ![DbOf[n]] = pull(n).at + Len(pull(n).page)]
  /\ Becomes(n, "pull", LET x == [pull(n) EXCEPT !.head = 0] IN
       IF x.page = <<>> THEN [x EXCEPT !.pc = "finish"] ELSE Applying(x))
  /\ UNCHANGED <<log, ver, csn, map, orphans, faults, resets, rushed, taken>>

\* The response arrives: lastKnownHead is set before any event is applied.
ReceivePage(n) ==
  /\ pull(n).pc = "reply"
  /\ known' = [known EXCEPT ![n] = pull(n).head]
  /\ Becomes(n, "pull", LET x == [pull(n) EXCEPT !.head = 0] IN
       IF x.page = <<>> THEN [x EXCEPT !.pc = "finish"] ELSE Applying(x))
  /\ UNCHANGED <<log, ver, csn, map, cursor, orphans, faults, resets, rushed, taken>>

\* Mistake: the position of the next event instead of the last one.
WriteNextCursor(n) ==
  LET next == pull(n).page[Len(pull(n).page)].seq + 1 IN
  /\ pull(n).pc = "cursor"
  /\ cursor' = [cursor EXCEPT ![DbOf[n]] = next]
  /\ Becomes(n, "pull", [pull(n) EXCEPT !.pc = IF pull(n).more THEN "query" ELSE "finish",
       !.at = next, !.page = <<>>, !.head = 0])
  /\ UNCHANGED <<log, ver, csn, map, known, orphans, faults, resets, rushed, taken>>

\* writeLastPulledGlobalSeq(nextSince); the next page is requested if there is one.
WriteCursor(n) ==
  LET last == pull(n).page[Len(pull(n).page)].seq IN
  /\ pull(n).pc = "cursor"
  /\ cursor' = [cursor EXCEPT ![DbOf[n]] = last]
  /\ Becomes(n, "pull", [pull(n) EXCEPT !.pc = IF pull(n).more THEN "query" ELSE "finish",
       !.at = last, !.page = <<>>, !.head = 0])
  /\ UNCHANGED <<log, ver, csn, map, known, orphans, faults, resets, rushed, taken>>

FinishPull(n) ==
  /\ pull(n).pc = "finish"
  /\ Ends(n, "pull")
  /\ UNCHANGED <<log, ver, csn, map, cursor, known, orphans, faults, resets, rushed, taken>>

\* The request fails, or a record cannot be materialized (missing key): the
\* catch block of pullOnceInternal ends the pull, whatever it has already done.
FailPull(n) ==
  /\ pull(n).pc \in {"query", "head", "reply", "apply"}
  /\ faults < MaxFaults
  /\ faults' = faults + 1
  /\ Ends(n, "pull")
  /\ UNCHANGED <<log, ver, csn, map, cursor, known, orphans, resets, rushed, taken>>

-----------------------------------------------------------------------------
(* The push thread: pushOnce *)

\* b lists, in commit order, the first PushBatchSize pending rows of database d.
IsBatch(d, b) ==
  /\ \A i, j \in DOMAIN b : i < j => csn[d][b[i].id] < csn[d][b[j].id]
  /\ \A i \in DOMAIN b : b[i].id \in Pending(d) /\ b[i].ver = ver[d][b[i].id]
  /\ \A i \in DOMAIN b : \A e \in Pending(d) :
       csn[d][e] < csn[d][b[i].id] => \E j \in DOMAIN b : b[j].id = e
PendingRows(d) == {[id |-> e, ver |-> ver[d][e]] : e \in Pending(d)}
BatchLength(d) == IF Cardinality(Pending(d)) < PushBatchSize
                  THEN Cardinality(Pending(d)) ELSE PushBatchSize

\* The engine has every event up to `at` and sends its rows as they are now.
CaughtUp(d, at, b) ==
  /\ \A k \in 1..at : Present(d, log[k].id)
  /\ \A i \in DOMAIN b : b[i].ver = ver[d][b[i].id]

\* loadPendingEvents; nothing to push ends the round.
LoadPending(n) ==
  LET d == DbOf[n] IN
  /\ push(n).pc \in {"idle", "parked", "retry"}
  /\ \/ /\ HasPending(d)
        /\ \E b \in [1..BatchLength(d) -> PendingRows(d)] :
             /\ IsBatch(d, b)
             /\ Becomes(n, "push", [Idle EXCEPT !.pc = "expect", !.batch = b,
                                                !.tries = push(n).tries + 1])
     \/ /\ ~HasPending(d)
        /\ push(n).pc = "retry"
        /\ Ends(n, "push")
  /\ UNCHANGED <<log, ver, csn, map, cursor, known, orphans, faults, resets, rushed, taken>>

\* getExpectedHead: lastKnownHead, or the cursor when it is null; then the
\* request is sent.
ReadExpectedHead(n) ==
  LET d == DbOf[n]
      at == IF known[n] # NoHead THEN known[n] ELSE cursor[d]
  IN  /\ push(n).pc = "expect"
      /\ Becomes(n, "push", [push(n) EXCEPT !.pc = "sent", !.at = at])
      /\ rushed' = (rushed \/ ~CaughtUp(d, at, push(n).batch))
      /\ UNCHANGED <<log, ver, csn, map, cursor, known, orphans, faults, resets, taken>>

\* `new` lists, in the order of the batch, its entries the log does not have.
IsNewPart(new, batch) ==
  /\ \A i, j \in DOMAIN new : i < j =>
       \E p, q \in DOMAIN batch : p < q /\ new[i] = batch[p] /\ new[j] = batch[q]
  /\ \A p \in DOMAIN batch : batch[p].id \notin LogIds => \E i \in DOMAIN new : new[i] = batch[p]

NewRows(batch) == {x \in {batch[p] : p \in DOMAIN batch} : x.id \notin LogIds}

\* The server accepts a push whose expectedHead is its head.
Accept(batch) ==
  \E new \in [1..Cardinality(NewRows(batch)) -> NewRows(batch)] :
    IsNewPart(new, batch) /\ log' = log \o new

\* assigned: the global sequence number of every event of the batch.
\* Mistake: as if every event were new.
AssignedAsNew(batch, l) ==
  [p \in DOMAIN batch |->
     [seq |-> Len(l) - Len(batch) + p, id |-> batch[p].id, ver |-> batch[p].ver]]
Assigned(batch, l) ==
  [p \in DOMAIN batch |->
     [seq |-> CHOOSE k \in DOMAIN l : l[k].id = batch[p].id,
      id |-> batch[p].id, ver |-> batch[p].ver]]

ServePush(n) ==
  LET x == push(n) IN
  /\ x.pc = "sent"
  /\ IF AtHead(x.at)
     THEN /\ Accept(x.batch)
          /\ Becomes(n, "push", [x EXCEPT !.pc = "ok", !.head = Len(log'),
                                          !.page = Assigned(x.batch, log'),
                                          !.batch = <<>>])
     ELSE /\ Becomes(n, "push", [x EXCEPT !.pc = "missing", !.head = Len(log), !.batch = <<>>])
          /\ UNCHANGED log
  /\ UNCHANGED <<ver, csn, map, cursor, known, orphans, faults, resets, rushed, taken>>

\* The sharing references of the batch do not hold: a conflict without `missing`.
RefusePush(n) ==
  /\ push(n).pc = "sent"
  /\ faults < MaxFaults
  /\ faults' = faults + 1
  /\ Becomes(n, "push", [push(n) EXCEPT !.pc = "refused", !.batch = <<>>])
  /\ UNCHANGED <<log, ver, csn, map, cursor, known, orphans, resets, rushed, taken>>

\* The server reads the missing events of a conflict in a later query.
ServeMissing(n) ==
  /\ push(n).pc = "missing"
  /\ Becomes(n, "push", [push(n) EXCEPT !.pc = "conflict", !.page = Page(push(n).at, MissingLimit)])
  /\ UNCHANGED <<log, ver, csn, map, cursor, known, orphans, faults, resets, rushed, taken>>

\* The answer does not reach the client (timeout, abort, lost connection), or a
\* missing event cannot be materialized.  A request the server has not seen
\* yet may still arrive.
FailPush(n) ==
  /\ push(n).pc \in {"sent", "ok", "missing", "conflict", "apply"}
  /\ faults < MaxFaults
  /\ faults' = faults + 1
  /\ orphans' = IF push(n).pc = "sent"
                THEN orphans \cup {[at |-> push(n).at, batch |-> push(n).batch]} ELSE orphans
  /\ Ends(n, "push")
  /\ UNCHANGED <<log, ver, csn, map, cursor, known, resets, rushed, taken>>

ServeOrphan(m) ==
  /\ m \in orphans
  /\ orphans' = orphans \ {m}
  /\ IF AtHead(m.at) THEN Accept(m.batch) ELSE UNCHANGED log
  /\ UNCHANGED <<ver, csn, map, cursor, known, th, faults, resets, rushed, taken>>

ApplyAssignments(n) ==
  LET d == DbOf[n] IN
  /\ push(n).pc = "ok"
  /\ map' = [map EXCEPT ![d] = WithMappings(d, push(n).page, EventIds)]
  /\ Becomes(n, "push", [Idle EXCEPT !.pc = "ack", !.head = push(n).head])
  /\ UNCHANGED <<log, ver, csn, cursor, known, orphans, faults, resets, rushed, taken>>

\* readLastPulledGlobalSeq for Math.max(cursor, response.head); the maximum is
\* written by a later request.
ReadCursor(n) ==
  /\ push(n).pc \in {"ack", "advance"}
  /\ Becomes(n, "push", [push(n) EXCEPT !.pc = IF push(n).pc = "ack" THEN "acked" ELSE "advanced",
                                        !.at = cursor[DbOf[n]]])
  /\ UNCHANGED <<log, ver, csn, map, cursor, known, orphans, faults, resets, rushed, taken>>

AckPush(n) ==
  /\ push(n).pc = "acked"
  /\ cursor' = [cursor EXCEPT ![DbOf[n]] = Larger(push(n).at, push(n).head)]
  /\ known' = [known EXCEPT ![n] = push(n).head]
  /\ Ends(n, "push")
  /\ UNCHANGED <<log, ver, csn, map, orphans, faults, resets, rushed, taken>>

\* handleConflict with missing events.
ReceiveConflict(n) ==
  /\ push(n).pc = "conflict"
  /\ Becomes(n, "push", Applying(push(n)))
  /\ UNCHANGED <<log, ver, csn, map, cursor, known, orphans, faults, resets, rushed, taken>>

\* pushOnce goes round again, or gives up after maxPushRetries attempts.
TriesAgain(n) ==
  IF push(n).tries < MaxPushRetries
  THEN Becomes(n, "push", [Idle EXCEPT !.pc = "retry", !.tries = push(n).tries])
  ELSE Ends(n, "push")

AdvanceToHead(n) ==
  LET d == DbOf[n] IN
  /\ push(n).pc = "advanced"
  /\ cursor' = [cursor EXCEPT ![d] = Larger(push(n).at, push(n).head)]
  /\ known' = [known EXCEPT ![n] = push(n).head]
  /\ TriesAgain(n)
  /\ UNCHANGED <<log, ver, csn, map, orphans, faults, resets, rushed, taken>>

\* handleConflict without missing events: awaitPullIfInFlight ...
AfterRefusal(n) ==
  /\ push(n).pc = "refused"
  /\ Becomes(n, "push", [push(n) EXCEPT !.pc = IF InFlight(n) THEN "joined" ELSE "check"])
  /\ UNCHANGED <<log, ver, csn, map, cursor, known, orphans, faults, resets, rushed, taken>>

\* ... then the push goes on if the cursor has passed expectedHead; otherwise it
\* requests a pull, awaits its end and looks again, and fails if that was in vain.
CheckCursor(n) ==
  /\ push(n).pc \in {"check", "recheck"}
  /\ \/ cursor[DbOf[n]] > push(n).at /\ TriesAgain(n)
     \/ /\ cursor[DbOf[n]] <= push(n).at
        /\ push(n).pc = "check"
        /\ Becomes(n, "push", [push(n) EXCEPT !.pc = "waiting"])
     \/ /\ cursor[DbOf[n]] <= push(n).at
        /\ push(n).pc = "recheck"
        /\ Ends(n, "push")
  /\ UNCHANGED <<log, ver, csn, map, cursor, known, orphans, faults, resets, rushed, taken>>

-----------------------------------------------------------------------------
(* The tab is reloaded: everything in memory is gone, the database stays. *)

Abandoned(n) ==
  IF push(n).pc = "sent" THEN {[at |-> push(n).at, batch |-> push(n).batch]} ELSE {}

Reload(n) ==
  /\ faults < MaxFaults
  /\ faults' = faults + 1
  /\ known' = [known EXCEPT ![n] = NoHead]
  /\ th' = [th EXCEPT ![n] = [t \in Threads |-> Idle]]
  /\ orphans' = orphans \cup Abandoned(n)
  /\ UNCHANGED <<log, ver, csn, map, cursor, resets, rushed, taken>>

\* stop, resetSyncState and start: transports are aborted and a push that waits
\* for a pull is woken, but a thread that is busy with the database goes on,
\* before and after the reset.
Aborted(n, t) ==
  th[n][t].pc \in {"query", "head", "reply", "sent", "ok", "missing", "conflict"}
Stopped(n, t) ==
  IF Aborted(n, t) THEN Idle
  ELSE IF t = "push" /\ (Aborted(n, "pull") \/ push(n).pc = "waiting")
       THEN [push(n) EXCEPT !.pc = Woken("pull", @)]
       ELSE th[n][t]

ResetSyncState(n) ==
  LET b == DbOf[n]
  IN  /\ resets < MaxResets
      /\ resets' = resets + 1
      /\ map' = [map EXCEPT ![b] = [e \in EventIds |-> 0]]
      /\ cursor' = [cursor EXCEPT ![b] = 0]
      /\ known' = [known EXCEPT ![n] = NoHead]
      /\ th' = [th EXCEPT ![n] = [t \in Threads |-> Stopped(n, t)]]
      /\ orphans' = orphans \cup Abandoned(n)
      /\ UNCHANGED <<log, ver, csn, faults, rushed, taken>>

-----------------------------------------------------------------------------
PullStep(n) ==
  \/ ServePage(n) \/ ServeHead(n) \/ ReceivePage(n) \/ WriteCursor(n) \/ FinishPull(n)
  \/ LookUpEvent(n, "pull") \/ ResolveVersion(n, "pull") \/ CommitPage(n, "pull")

PushStep(n) ==
  \/ ReadExpectedHead(n) \/ ServePush(n) \/ ServeMissing(n)
  \/ ApplyAssignments(n) \/ ReadCursor(n) \/ AckPush(n)
  \/ ReceiveConflict(n) \/ AdvanceToHead(n) \/ AfterRefusal(n) \/ CheckCursor(n)
  \/ LookUpEvent(n, "push") \/ ResolveVersion(n, "push") \/ CommitPage(n, "push")

Next ==
  \/ \E b \in Dbs, e \in EventIds : Append1(b, e)
  \/ \E n \in Engines :
       \/ StartPull(n) \/ PullStep(n) \/ FailPull(n)
       \/ LoadPending(n) \/ PushStep(n) \/ RefusePush(n) \/ FailPush(n)
       \/ Reload(n) \/ ResetSyncState(n)
  \/ \E m \in orphans : ServeOrphan(m)

Spec == Init /\ [][Next]_vars

\* The loops of a running engine start a pull and a push again and again until
\* a non-retryable error parks them, and a pull or push that is in flight goes
\* on.  Faults, resets and commands owe nothing.
Parked(n) == \E t \in Threads : th[n][t].pc = "parked"
Fairness == \A n \in Engines :
  /\ WF_vars((~Parked(n) \/ push(n).pc = "waiting") /\ StartPull(n)) /\ WF_vars(~Parked(n) /\ LoadPending(n))
  /\ WF_vars(PullStep(n)) /\ WF_vars(PushStep(n))

FairSpec == Spec /\ Fairness

-----------------------------------------------------------------------------
(* Properties *)

\* Every table, engine field and request has the type the code gives it, and no
\* client knows a position the server has not reached.
TypeOK ==
  /\ log \in Seq(Entry)
  /\ ver \in [Dbs -> [EventIds -> Nat]]
  /\ csn \in [Dbs -> [EventIds -> Nat]]
  /\ map \in [Dbs -> [EventIds -> 0..Len(log)]]
  /\ cursor \in [Dbs -> 0..Len(log)]
  /\ known \in [Engines -> NoHead..Len(log)]
  /\ th \in [Engines -> [Threads -> Thread]]
  /\ orphans \subseteq [at : Nat, batch : Seq(Entry)]
  /\ faults \in 0..MaxFaults /\ resets \in 0..MaxResets
  /\ rushed \in BOOLEAN /\ taken \in BOOLEAN

\* A row of sync_event_map names the position the server gave the event: lost
\* answers, repeated and orphaned pushes, resets and a second tab included.
MapAgrees == \A b \in Dbs, e \in EventIds :
  map[b][e] # 0 => map[b][e] \in DOMAIN log /\ log[map[b][e]].id = e

\* No event is in the server's log twice, however often it was pushed (INV-008).
LogIdsOnce == \A i, j \in DOMAIN log : log[i].id = log[j].id => i = j

\* No two events of an aggregate have the same version in the log (otherwise
\* every other device runs into a version collision it cannot resolve).
LogVersionsDistinct == \A i, j \in DOMAIN log :
  AggOf[log[i].id] = AggOf[log[j].id] /\ log[i].ver = log[j].ver => i = j

\* Everything up to the cursor has been stored: a later pull starts after it.
NoGap == \A b \in Dbs : \A k \in 1..cursor[b] :
  k <= Len(log) /\ Present(b, log[k].id)

\* A synced row is, byte for byte, the record the server has (INV-001).
SyncedRowsAgree == \A b \in Dbs, e \in EventIds :
  map[b][e] # 0 /\ Present(b, e) => ver[b][e] = log[map[b][e]].ver

\* As long as no push was sent by an engine that had not stored everything up to
\* its expectedHead, and the list of missing events is never cut off, nothing is
\* skipped; and if no command took a version that a page being applied had found
\* free, no version is in the log twice and synced rows are the server's records.
CaughtUpIsSafe ==
  ~rushed /\ Len(log) <= MissingLimit =>
    NoGap /\ (~taken => LogVersionsDistinct /\ SyncedRowsAgree)

\* What the engine owes its users: every mapping is the server's, no event is
\* stored there twice, and devices that were caught up when they pushed hold the
\* same records at the same places, whatever was lost, repeated, reloaded or reset.
DevicesAgree == MapAgrees /\ LogIdsOnce /\ CaughtUpIsSafe

\* Once commands stop, everything is pushed and every pulling engine has every
\* event, unless a push was rushed or a loop parked on a non-retryable error.
AllSynced ==
  /\ \A n \in Engines : Pending(DbOf[n]) = {}
  /\ \A n \in Pullers : \A k \in DOMAIN log : Present(DbOf[n], log[k].id)
Converges == <>[](rushed \/ (\E n \in Engines : Parked(n)) \/ AllSynced)

(* What the documents say and the code does not do. *)

\* rfc-20251228-livestore-replacement.md:1798: "a client must be at the server
\* head before it can push domain events".
OnlyCaughtUpPushesAccepted ==
  [][\A n \in Engines : push(n).pc = "sent" /\ push(n)'.pc = "ok" =>
       \A k \in DOMAIN log : Present(DbOf[n], log[k].id)]_vars

\* rfc-20251228-livestore-replacement.md:1799: a conflict brings the missing
\* events "(or a cursor to fetch them)": even without a rushed push, nothing
\* below the cursor is missing.
ConflictLeavesNoGap == ~rushed => NoGap

\* docs/invariants.md:11, INV-001: "Once an event has a `globalSequence`,
\* ciphertext bytes + metadata are never rewritten": even if a command takes a
\* version between the look-up and the commit of a page.
SyncedRowsAreKept == ~rushed /\ Len(log) <= MissingLimit => SyncedRowsAgree
=============================================================================
