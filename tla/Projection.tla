----------------------------- MODULE Projection -----------------------------
(***************************************************************************)
(* Derived state (packages/infrastructure/src/platform/derived-state): one *)
(* ProjectionRuntime with its processor, which folds the events of one     *)
(* aggregate type in effectiveTotalOrder (synced events by global          *)
(* sequence, then pending ones by commit sequence) into a snapshot that is *)
(* kept in memory and in projection_cache, and the position it has reached *)
(* in memory and in projection_meta.                                       *)
(*                                                                         *)
(* Two loops may run: the one start() awaits, and the one of the           *)
(* ProjectionTaskRunner that serves table notifications, flush() and       *)
(* onRebaseRequired().  An action is the code between two requests to the  *)
(* database worker.  The k-th row of `events` has commit sequence k; a     *)
(* snapshot is the sequence of the rows folded into it.                    *)
(*                                                                         *)
(* Commands and the sync engine are the environment: they append rows,     *)
(* number pending rows and, if rows were pending before the poll and still *)
(* are after it, call onRebaseRequired.                                    *)
(***************************************************************************)
EXTENDS Naturals, Sequences, FiniteSets, Functions

CONSTANTS
  Readers,        \* callers of flush(), through a read model
  BatchSize,      \* scheduler.batchSize (250)
  MaxEvents,      \* bound on rows
  MaxReloads,     \* bound on reloads of the tab and calls of resetAndRebuild
  MaxEventFaults  \* bound on events that cannot be decrypted or have no key

ASSUME ProjectionConstants ==
  /\ BatchSize \in Nat \ {0}
  /\ MaxEvents \in Nat /\ MaxReloads \in Nat /\ MaxEventFaults \in Nat

Loops == {"start", "run"}
Zero == [g |-> 0, p |-> 0]                   \* ZERO_EFFECTIVE_CURSOR
NoWork == [pc |-> "idle", batch |-> <<>>, full |-> FALSE, prev |-> <<>>, next |-> Zero]
NoFlush == [st |-> "none", need |-> 0]

VARIABLES
  rows,        \* rows[k]: global_seq of the row with commit sequence k, 0 if pending
  poll,        \* the sync engine: "idle", "waiting" for a page, about to "check" for
               \* pending rows once more, or about to "rebase"
  hadPending,  \* what it read before the poll
  ahead,       \* whether a page of this pull came in front of pending rows
  meta,        \* projection_meta: last_global_seq and last_pending_commit_seq
  cache,       \* projection_cache
  cursor,      \* cursorState.lastEffectiveCursor
  mem,         \* the snapshot in memory, <<>> if there is none
  started, ready, subscribed,
  rebuild,     \* pendingRebuild
  again,       \* the runner's `pending`
  notified,    \* a notification of the worker is under way
  loop,        \* loop[l]: where a loop is, the rest of its batch, whether that was full,
               \* the snapshot it extends and the cursor it will set
  flush,       \* flush[c]: a call of flush(), and how many rows there were then
  reloads, faults,
  skipped,     \* history: rows passed over because their key was missing
  overlapped,  \* history: both loops were active at once
  torn,        \* history: a reload, or start(), met a cache and a position that did not
               \* match, or an event threw between its snapshot and its position
  missed       \* history: pages came in front of pending rows and caused no rebase

envVars == <<poll, hadPending, ahead>>
diskVars == <<rows, meta, cache>>
lifeVars == <<started, ready, subscribed>>
history == <<overlapped, torn, missed>>
projectionVars ==
  <<rows, envVars, meta, cache, cursor, mem, started, ready, subscribed, rebuild, again,
    notified, loop, flush, reloads, faults, skipped, overlapped, torn, missed>>

-----------------------------------------------------------------------------
(* Ordering and queries *)

CommitSeqs == DOMAIN rows
Pending == {k \in CommitSeqs : rows[k] = 0}
Top == LET G == {rows[k] : k \in CommitSeqs} \cup {0} IN CHOOSE g \in G : \A h \in G : h <= g

\* ORDER BY: synced rows first, by global sequence, then pending rows.
Before(i, j) ==
  \/ rows[i] # 0 /\ rows[j] # 0 /\ rows[i] < rows[j]
  \/ rows[i] # 0 /\ rows[j] = 0
  \/ rows[i] = 0 /\ rows[j] = 0 /\ i < j
Ascending(s) == \A i, j \in DOMAIN s : i < j => Before(s[i], s[j])

\* Mistake: a row that was folded while it was pending is found again once synced.
UnreadByGlobal(c) == {k \in CommitSeqs : IF rows[k] # 0 THEN rows[k] > c.g ELSE k > c.p}

\* The WHERE clause of readEffectiveOrdered.
Unread(c) == {k \in CommitSeqs : IF rows[k] # 0 THEN rows[k] > c.g /\ k > c.p ELSE k > c.p}

\* ORDER BY and LIMIT: the first rows in effective order; all of them if there are
\* fewer than a batch.
FirstOf(S) == {s \in UNION {[1..n -> S] : n \in 0..BatchSize} :
                 /\ Ascending(s)
                 /\ \A i \in DOMAIN s, k \in S \ Range(s) : Before(s[i], k)
                 /\ Len(s) < BatchSize => Range(s) = S}

\* The batch the query returns after cursor c (there is one).
ReadEffectiveOrdered(c) ==
  {[i \in DOMAIN s |-> [k |-> s[i], g |-> rows[s[i]]]] : s \in FirstOf(Unread(c))}

\* Mistake: the two parts of the cursor are mixed up.
AdvanceGlobally(c, e) == [c EXCEPT !.g = e.k + e.g]

AdvanceEffectiveCursor(c, e) ==
  IF e.g # 0 THEN [c EXCEPT !.g = e.g] ELSE [c EXCEPT !.p = e.k]

-----------------------------------------------------------------------------
\* Snapshot s has exactly the rows that cursor c counts as read, but for those
\* passed over.
Folded(s, c) == Range(s) \cup skipped = CommitSeqs \ Unread(c)

ProjectionInit ==
  /\ rows = <<>> /\ poll = "idle" /\ hadPending = FALSE /\ ahead = FALSE
  /\ meta = Zero /\ cache = <<>>
  /\ cursor = Zero /\ mem = <<>>
  /\ started = FALSE /\ ready = FALSE /\ subscribed = FALSE
  /\ rebuild = FALSE /\ again = FALSE /\ notified = FALSE
  /\ loop = [l \in Loops |-> NoWork]
  /\ flush = [c \in Readers |-> NoFlush]
  /\ reloads = 0 /\ faults = 0
  /\ skipped = {} /\ overlapped = FALSE /\ torn = FALSE /\ missed = FALSE

Busy(l) == loop[l].pc # "idle"

-----------------------------------------------------------------------------
(* The environment: commands and the sync engine *)

TableNotified == notified' = (notified \/ subscribed)

Commit ==
  /\ Len(rows) < MaxEvents
  /\ rows' = Append(rows, 0)
  /\ TableNotified
  /\ UNCHANGED <<envVars, meta, cache, cursor, mem, lifeVars, rebuild, again, loop, flush,
                 reloads, faults, skipped, history>>

\* A push is acknowledged: the pending rows up to k get the next numbers.
ApplyAssignments(k) ==
  /\ k \in Pending
  /\ rows' = [i \in CommitSeqs |->
                IF i \in Pending /\ i <= k
                THEN Top + Cardinality({j \in Pending : j <= i}) ELSE rows[i]]
  /\ TableNotified
  /\ UNCHANGED <<envVars, meta, cache, cursor, mem, lifeVars, rebuild, again, loop, flush,
                 reloads, faults, skipped, history>>

\* pullOnceInternal (handleConflict likewise): hadPending is read, then the page
\* is awaited; further pages may follow.
StartPull ==
  /\ poll = "idle"
  /\ poll' = "waiting" /\ hadPending' = (Pending # {})
  /\ UNCHANGED <<ahead, diskVars, cursor, mem, lifeVars, rebuild, again, notified, loop, flush,
                 reloads, faults, skipped, history>>

ApplyRemoteEvents ==
  /\ poll = "waiting" /\ Len(rows) < MaxEvents
  /\ rows' = Append(rows, Top + 1)
  /\ TableNotified
  /\ poll' \in {"waiting", "check"}
  /\ ahead' = (ahead \/ Pending # {})
  /\ UNCHANGED <<hadPending, meta, cache, cursor, mem, lifeVars, rebuild, again, loop, flush,
                 reloads, faults, skipped, history>>

\* stillPending: a rebase is asked for if rows were pending before and still are.
CheckPending ==
  /\ poll = "check"
  /\ poll' = IF hadPending /\ Pending # {} THEN "rebase" ELSE "idle"
  /\ missed' = (missed \/ (ahead /\ ~(hadPending /\ Pending # {})))
  /\ ahead' = FALSE
  /\ UNCHANGED <<hadPending, diskVars, cursor, mem, lifeVars, rebuild, again, notified, loop, flush,
                 reloads, faults, skipped, overlapped, torn>>

\* A request for a further page, its page or the query of pending rows throws: the pull
\* ends, whatever pages came, and no rebase is asked for.
PullFails ==
  /\ poll \in {"waiting", "check"}
  /\ poll' = "idle"
  /\ missed' = (missed \/ ahead) /\ ahead' = FALSE
  /\ UNCHANGED <<hadPending, diskVars, cursor, mem, lifeVars, rebuild, again, notified, loop, flush,
                 reloads, faults, skipped, overlapped, torn>>

-----------------------------------------------------------------------------
(* ProjectionTaskRunner.run *)

\* Mistake: a call that finds the runner busy only waits for it.
RunOrWait ==
  IF Busy("run")
  THEN UNCHANGED <<again, loop, overlapped>>
  ELSE /\ loop' = [loop EXCEPT !["run"] = [NoWork EXCEPT !.pc = "enter"]]
       /\ again' = FALSE
       /\ overlapped' = (overlapped \/ Busy("start"))

Run ==
  IF Busy("run")
  THEN again' = TRUE /\ UNCHANGED <<loop, overlapped>>
  ELSE /\ loop' = [loop EXCEPT !["run"] = [NoWork EXCEPT !.pc = "enter"]]
       /\ again' = FALSE
       /\ overlapped' = (overlapped \/ Busy("start"))

\* The subscription's callback: scheduleProcessing.
Notify ==
  /\ notified
  /\ notified' = FALSE
  /\ Run
  /\ UNCHANGED <<envVars, diskVars, cursor, mem, lifeVars, rebuild, flush,
                 reloads, faults, skipped, torn, missed>>

\* onRebaseRequired, called by the sync engine,
OnRebaseRequired ==
  /\ poll = "rebase"
  /\ poll' = "idle" /\ rebuild' = TRUE
  /\ Run
  /\ UNCHANGED <<hadPending, ahead, diskVars, cursor, mem, lifeVars, notified, flush,
                 reloads, faults, skipped, torn, missed>>

\* and by the application after an import or a restore.
ResetAndRebuild ==
  /\ reloads < MaxReloads
  /\ reloads' = reloads + 1
  /\ rebuild' = TRUE
  /\ Run
  /\ UNCHANGED <<envVars, diskVars, cursor, mem, lifeVars, notified, flush,
                 faults, skipped, torn, missed>>

\* A read model: whenReady, then flush.
Flush(c) ==
  /\ ready /\ flush[c].st = "none"
  /\ flush' = [flush EXCEPT ![c] = [st |-> IF Busy("run") THEN "joined" ELSE "owner",
                                    need |-> Len(rows)]]
  /\ Run
  /\ UNCHANGED <<envVars, diskVars, cursor, mem, lifeVars, rebuild, notified,
                 reloads, faults, skipped, torn, missed>>

\* Mistake: the callers are resumed after the pass they found, reruns or not.
EndsEarly(l, ok) ==
  IF l = "run" /\ again /\ ok
  THEN /\ loop' = [loop EXCEPT ![l] = [NoWork EXCEPT !.pc = "enter"]]
       /\ again' = FALSE
       /\ flush' = [c \in Readers |-> IF flush[c].st = "none" THEN flush[c]
                                      ELSE [flush[c] EXCEPT !.st = "done"]]
       /\ UNCHANGED ready
  ELSE /\ loop' = [loop EXCEPT ![l] = NoWork]
       /\ again' = IF l = "run" THEN FALSE ELSE again
       /\ flush' = [c \in Readers |->
            IF l = "start" \/ flush[c].st = "none" THEN flush[c]
            ELSE [flush[c] EXCEPT !.st = IF ok \/ @ = "joined" THEN "done" ELSE "failed"]]
       /\ ready' = (ready \/ (l = "start" /\ ok))

\* A pass of loop l ends.  start() resolves readyPromise; the runner makes
\* another pass if one was asked for, else resumes every caller.  If the pass
\* threw, start() rejects with readyPromise open for ever, and the runner drops
\* the request for another pass, rejects its first caller and resumes the others.
Ends(l, ok) ==
  IF l = "run" /\ again /\ ok
  THEN /\ loop' = [loop EXCEPT ![l] = [NoWork EXCEPT !.pc = "enter"]]
       /\ again' = FALSE
       /\ UNCHANGED <<flush, ready>>
  ELSE /\ loop' = [loop EXCEPT ![l] = NoWork]
       /\ again' = IF l = "run" THEN FALSE ELSE again
       /\ flush' = [c \in Readers |->
            IF l = "start" \/ flush[c].st = "none" THEN flush[c]
            ELSE [flush[c] EXCEPT !.st = IF ok \/ @ = "joined" THEN "done" ELSE "failed"]]
       /\ ready' = (ready \/ (l = "start" /\ ok))

\* The caller of flush() goes on with the result.
Answer(c) ==
  /\ flush[c].st \in {"done", "failed"}
  /\ flush' = [flush EXCEPT ![c] = NoFlush]
  /\ UNCHANGED <<envVars, diskVars, cursor, mem, lifeVars, rebuild, again, notified, loop,
                 reloads, faults, skipped, history>>

-----------------------------------------------------------------------------
(* start() *)

Start ==
  /\ ~started
  /\ started' = TRUE
  /\ loop' = [loop EXCEPT !["start"].pc = "load"]
  /\ overlapped' = (overlapped \/ Busy("run"))
  /\ UNCHANGED <<envVars, diskVars, cursor, mem, ready, subscribed, rebuild, again, notified,
                 flush, reloads, faults, skipped, torn, missed>>

\* The position is read; the cache is another request.
LoadOrInitializeMeta ==
  /\ loop["start"].pc = "load"
  /\ cursor' = meta
  /\ torn' = (torn \/ ~Folded(cache, meta))
  /\ loop' = [loop EXCEPT !["start"].pc = "boot"]
  /\ UNCHANGED <<envVars, diskVars, mem, lifeVars, rebuild, again, notified,
                 flush, reloads, faults, skipped, overlapped, missed>>

\* bootstrapFromCache, then subscribeToTables.
Bootstrap ==
  /\ loop["start"].pc = "boot"
  /\ mem' = IF cache # <<>> THEN cache ELSE mem
  /\ subscribed' = TRUE
  /\ loop' = [loop EXCEPT !["start"].pc = "enter"]
  /\ UNCHANGED <<envVars, diskVars, cursor, started, ready, rebuild, again, notified,
                 flush, reloads, faults, skipped, history>>

-----------------------------------------------------------------------------
(* runProcessingLoop *)

At(l, label) == loop[l].pc = label
Goto(l, label) == loop' = [loop EXCEPT ![l].pc = label]

Enter(l) ==
  /\ At(l, "enter") /\ ~rebuild
  /\ Goto(l, "read")
  /\ UNCHANGED <<envVars, diskVars, cursor, mem, lifeVars, rebuild, again, notified, flush,
                 reloads, faults, skipped, history>>

\* performRebuild: the request is taken, the phase is saved with the old cursor.
BeginRebuild(l) ==
  /\ At(l, "enter") /\ rebuild
  /\ rebuild' = FALSE
  /\ meta' = cursor
  /\ Goto(l, "reset")
  /\ UNCHANGED <<envVars, rows, cache, cursor, mem, lifeVars, again, notified, flush,
                 reloads, faults, skipped, history>>

\* The cursor is set back and the processor clears its memory,
ResetMemory(l) ==
  /\ At(l, "reset")
  /\ cursor' = Zero /\ mem' = <<>> /\ skipped' = {}
  /\ Goto(l, "clear")
  /\ UNCHANGED <<envVars, diskVars, lifeVars, rebuild, again, notified, flush,
                 reloads, faults, history>>

\* then the persisted caches,
ClearPersisted(l) ==
  /\ At(l, "clear")
  /\ cache' = <<>>
  /\ Goto(l, "save")
  /\ UNCHANGED <<envVars, rows, meta, cursor, mem, lifeVars, rebuild, again, notified, flush,
                 reloads, faults, skipped, history>>

\* and the cursor is saved.
SaveReset(l) ==
  /\ At(l, "save")
  /\ meta' = cursor
  /\ Goto(l, "read")
  /\ UNCHANGED <<envVars, rows, cache, cursor, mem, lifeVars, rebuild, again, notified, flush,
                 reloads, faults, skipped, history>>

\* readNextBatch, and updatePhase (catchingUp), which saves the cursor.
ReadNextBatch(l) ==
  /\ At(l, "read")
  /\ \E b \in ReadEffectiveOrdered(cursor) :
     \/ /\ b = <<>>
        /\ Goto(l, "finish")
        /\ UNCHANGED meta
     \/ /\ b # <<>>
        /\ loop' = [loop EXCEPT ![l] = [NoWork EXCEPT !.pc = "apply", !.batch = b,
                                                      !.full = Len(b) = BatchSize]]
        /\ meta' = cursor
  /\ UNCHANGED <<envVars, rows, cache, cursor, mem, lifeVars, rebuild, again, notified, flush,
                 reloads, faults, skipped, history>>

\* The next cursor is computed; applyEvent finds the snapshot to extend, in memory
\* or in the cache.
ApplyEvent(l) ==
  /\ At(l, "apply") /\ loop[l].batch # <<>>
  /\ loop' = [loop EXCEPT ![l].pc = "put",
                          ![l].prev = IF mem # <<>> THEN mem ELSE cache,
                          ![l].next = AdvanceEffectiveCursor(cursor, Head(loop[l].batch))]
  /\ UNCHANGED <<envVars, diskVars, cursor, mem, lifeVars, rebuild, again, notified, flush,
                 reloads, faults, skipped, history>>

\* applyEvent returns: the cursor is set, the loop goes to its next event.
Applied(l) ==
  /\ At(l, "put")
  /\ cursor' = loop[l].next
  /\ loop' = [loop EXCEPT ![l].pc = "apply", ![l].batch = Tail(@), ![l].prev = <<>>,
                          ![l].next = Zero]
  /\ UNCHANGED <<envVars, rows, meta, lifeVars, rebuild, again, notified, flush,
                 reloads, history>>

\* persistSnapshot, and the snapshot in memory.
PersistSnapshot(l) ==
  /\ Applied(l)
  /\ LET snapshot == Append(loop[l].prev, Head(loop[l].batch).k)
     IN  cache' = snapshot /\ mem' = snapshot
  /\ UNCHANGED <<faults, skipped>>

\* MissingKeyError: the event is passed over.
SkipEvent(l) ==
  /\ faults < MaxEventFaults
  /\ Applied(l)
  /\ faults' = faults + 1
  /\ skipped' = skipped \cup {Head(loop[l].batch).k}
  /\ UNCHANGED <<cache, mem>>

\* Any other error ends the pass and leaves the cursor: an event that cannot be read has
\* changed nothing,
FailEvent(l) ==
  /\ At(l, "put") /\ faults < MaxEventFaults
  /\ faults' = faults + 1
  /\ Ends(l, FALSE)
  /\ UNCHANGED <<envVars, diskVars, cursor, mem, started, subscribed, rebuild, notified,
                 reloads, skipped, history>>

\* one whose analytics cannot be updated is in the snapshot already, stored and in memory,
\* and will be read again.
FailAnalytics(l) ==
  /\ At(l, "put") /\ faults < MaxEventFaults
  /\ faults' = faults + 1
  /\ LET snapshot == Append(loop[l].prev, Head(loop[l].batch).k)
     IN  cache' = snapshot /\ mem' = snapshot
  /\ torn' = TRUE
  /\ Ends(l, FALSE)
  /\ UNCHANGED <<envVars, rows, meta, cursor, started, subscribed, rebuild, notified,
                 reloads, skipped, overlapped, missed>>

\* persistCursorState (catchingUp): a full batch is followed by another one,
PersistCursorState(l) ==
  /\ At(l, "apply") /\ loop[l].batch = <<>>
  /\ meta' = cursor
  /\ loop' = [loop EXCEPT ![l] = [NoWork EXCEPT !.pc = IF loop[l].full THEN "read" ELSE "finish"]]
  /\ UNCHANGED <<envVars, rows, cache, cursor, mem, lifeVars, rebuild, again, notified, flush,
                 reloads, faults, skipped, history>>

\* and the last one by the phase idle, saved with the cursor.
Finish(l) ==
  /\ At(l, "finish")
  /\ meta' = cursor
  /\ Ends(l, TRUE)
  /\ UNCHANGED <<envVars, rows, cache, cursor, mem, started, subscribed, rebuild, notified,
                 reloads, faults, skipped, history>>

-----------------------------------------------------------------------------
\* The cache matches the saved position, and no rebuild is outstanding.
Matches ==
  /\ Folded(cache, meta)
  /\ ~rebuild /\ ~ahead /\ poll # "rebase"
  /\ \A l \in Loops : loop[l].pc \notin {"reset", "clear"}

\* The tab is closed or its services are stopped and created again.
Reload ==
  /\ started /\ reloads < MaxReloads
  /\ reloads' = reloads + 1
  /\ cursor' = Zero /\ mem' = <<>>
  /\ started' = FALSE /\ ready' = FALSE /\ subscribed' = FALSE
  /\ rebuild' = FALSE /\ again' = FALSE /\ notified' = FALSE
  /\ poll' = "idle" /\ hadPending' = FALSE /\ ahead' = FALSE
  /\ loop' = [l \in Loops |-> NoWork]
  /\ flush' = [c \in Readers |-> NoFlush]
  /\ torn' = (torn \/ ~Matches)
  /\ UNCHANGED <<diskVars, faults, skipped, overlapped, missed>>

LoopStep(l) ==
  \/ Enter(l) \/ BeginRebuild(l) \/ ResetMemory(l) \/ ClearPersisted(l) \/ SaveReset(l)
  \/ ReadNextBatch(l) \/ ApplyEvent(l) \/ PersistSnapshot(l) \/ PersistCursorState(l)
  \/ Finish(l)

StartStep == Start \/ LoadOrInitializeMeta \/ Bootstrap

ProjectionNext ==
  \/ Commit \/ (\E k \in CommitSeqs : ApplyAssignments(k)) \/ StartPull \/ ApplyRemoteEvents
  \/ CheckPending \/ PullFails \/ Notify \/ OnRebaseRequired \/ ResetAndRebuild \/ StartStep
  \/ \E l \in Loops : LoopStep(l) \/ SkipEvent(l) \/ FailEvent(l) \/ FailAnalytics(l)
  \/ \E c \in Readers : Flush(c) \/ Answer(c)
  \/ Reload

ProjectionSpec == ProjectionInit /\ [][ProjectionNext]_projectionVars

\* The application starts the runtime, the event loop runs every ready
\* continuation, notifications arrive, and the engine calls onRebaseRequired
\* after the page.  Commands, readers, the server, reloads and errors owe nothing.
Fairness ==
  /\ WF_projectionVars(StartStep) /\ WF_projectionVars(Notify) /\ WF_projectionVars(CheckPending)
  /\ WF_projectionVars(OnRebaseRequired)
  /\ \A l \in Loops : WF_projectionVars(LoopStep(l))

FairSpec == ProjectionSpec /\ Fairness

-----------------------------------------------------------------------------
(* Properties *)

\* Every field and table has the type the code gives it, and no position is
\* beyond the rows it counts.
ProjectionTypeOK ==
  LET Position == [g : 0..Top, p : 0..Len(rows)] IN
  /\ rows \in Seq(Nat) /\ poll \in {"idle", "waiting", "check", "rebase"}
  /\ hadPending \in BOOLEAN /\ ahead \in BOOLEAN
  /\ meta \in Position /\ cursor \in Position
  /\ cache \in Seq(CommitSeqs) /\ mem \in Seq(CommitSeqs)
  /\ started \in BOOLEAN /\ ready \in BOOLEAN /\ subscribed \in BOOLEAN
  /\ rebuild \in BOOLEAN /\ again \in BOOLEAN /\ notified \in BOOLEAN
  /\ loop \in [Loops -> [pc : {"idle", "load", "boot", "enter", "reset", "clear", "save",
                               "read", "apply", "put", "finish"},
                         batch : Seq([k : CommitSeqs, g : 0..Top]), full : BOOLEAN,
                         prev : Seq(CommitSeqs), next : Position]]
  /\ \A l \in Loops : At(l, "put") => loop[l].batch # <<>>
  /\ flush \in [Readers -> [st : {"none", "owner", "joined", "done", "failed"},
                            need : 0..Len(rows)]]
  /\ reloads \in 0..MaxReloads /\ faults \in 0..MaxEventFaults /\ skipped \subseteq CommitSeqs
  /\ overlapped \in BOOLEAN /\ torn \in BOOLEAN /\ missed \in BOOLEAN

Sound == ~overlapped /\ ~torn /\ ~missed

\* Nothing is running or due, and the cursor has passed every row.
CaughtUp == ready /\ ~rebuild /\ poll \notin {"check", "rebase"} /\ Unread(cursor) = {}
Settled == CaughtUp /\ ~ahead /\ \A l \in Loops : ~Busy(l)

\* INV-002, INV-011: a projection at rest is the fold of the events in effective
\* order, each once (Ascending), although rows move in that order when they are numbered
\* and remote rows come in front of pending ones; unless two loops overlapped, a reload
\* or a throwing event tore snapshot and position apart, or a rebase was not asked for.
SettledIsEffective ==
  Settled /\ Sound => Range(mem) = CommitSeqs \ skipped /\ Ascending(mem)

\* types.ts: flush() "Resolves once derived state has caught up to now": the
\* snapshot a read model sees has every row there was when it asked.
FlushFresh ==
  [][\A c \in Readers :
       /\ flush[c].st \in {"owner", "joined"} /\ flush'[c].st = "done"
       /\ Sound /\ faults' = 0
       => 1..flush[c].need \subseteq Range(mem')]_projectionVars

\* No notification, rebase or flush is lost in the runner: once nobody writes any
\* more the projection catches up for good, unless an event threw (then start() may
\* never become ready) or the pass of start() overlapped one of the runner and set
\* the cursor back; and every flush() returns.
Settles ==
  /\ <>[](faults > 0 \/ overlapped \/ CaughtUp)
  /\ \A c \in Readers : []<>(faults > 0 \/ flush[c].st \notin {"owner", "joined"})

(* What the documents say and the code does not do. *)

\* rfc-20251128-local-first-poc.md:536: "Projection processors are idempotent: they
\* only advance `last_sequence` after successful processing and can safely be
\* restarted": no event is folded twice into a snapshot.
RestartSafe == ~overlapped => \A i, j \in DOMAIN mem : mem[i] = mem[j] => i = j

\* rfc-20251228-livestore-replacement.md:1560: 'The projection/indexing runtime is
\* "eventually consistent compute"': without faults, and once nobody writes any more,
\* the projection catches up, whatever overlapped.
EventuallyConsistent == <>[](faults > 0 \/ CaughtUp)
=============================================================================
